---------------------------- MODULE Spec2Model ----------------------------
(***************************************************************************)
(* A model of the revalidating HTTP cache of nvsdk_getter.                 *)
(*                                                                         *)
(* The repository holds two implementations of the cache:                  *)
(*   - src/src/cache.rs           cached_get_path (used by the sdkm repos) *)
(*   - src/src/caching_client.rs  CachedRequest::send followed by          *)
(*                                CachedResponse::cached_file_path         *)
(* The variable api says which of the two a behaviour exercises.           *)
(*                                                                         *)
(* Text (header values, URLs inside JSON, timestamps) is a sequence of     *)
(* one-character strings, bytes are small integers, Option<T> is a         *)
(* sequence of length 0 (None) or 1 (Some), and a JSON document is a       *)
(* tagged tuple.                                                           *)
(***************************************************************************)
EXTENDS Integers, Sequences, FiniteSets, TLC

VARIABLES
    api,      \* "cache" (cache.rs) or "client" (caching_client.rs)
    disk,     \* the cache root: cache key -> [dir, data, meta]
    now,      \* the wall clock (chrono::Utc::now), in seconds
    call,     \* per caller: the position and locals of its fetch
    active,   \* the callers that run
    fetches,  \* number of fetches started so far
    job       \* the operation outside the fetcher that runs, with its locals

vars == <<api, disk, now, call, active, fetches, job>>

-----------------------------------------------------------------------------
(* Bounds of the model *)

\* The clock runs from 0 to MaxTime.
MaxTime == 1

\* The capacity of a BufWriter, in bytes (8 KiB in std, scaled to the bodies
\* of the model).
BufCapacity == 2

\* At most MaxFetches fetches are started in a behaviour.
MaxFetches == 2

\* At most MaxAccessorCalls calls of cached_file_path on one CachedResponse.
MaxAccessorCalls == 2

-----------------------------------------------------------------------------
(* Option<T> *)

None == <<>>
Some(x) == <<x>>
IsSome(o) == Len(o) = 1
IsNone(o) == Len(o) = 0
Unwrap(o) == o[1]

-----------------------------------------------------------------------------
(* Text *)

Digits == <<"0", "1", "2", "3", "4", "5", "6", "7", "8", "9">>

IsAsciiDigit(c) == c \in {"0", "1", "2", "3", "4", "5", "6", "7", "8", "9"}

DigitVal(c) ==
    CASE c = "0" -> 0 [] c = "1" -> 1 [] c = "2" -> 2 [] c = "3" -> 3
      [] c = "4" -> 4 [] c = "5" -> 5 [] c = "6" -> 6 [] c = "7" -> 7
      [] c = "8" -> 8 [] c = "9" -> 9

\* A decimal digit of another script (ARABIC-INDIC DIGIT THREE): the regex
\* class \d is Unicode-aware and matches it, u64::from_str_radix does not.
ArabicThree == "U+0663"

\* A byte that is not valid UTF-8 (and not a visible ASCII character).
ByteFF == "0xFF"

\* regex \d
IsRegexDigit(c) == IsAsciiDigit(c) \/ c = ArabicThree

\* std::str::from_utf8(bytes).is_ok()
IsUtf8(s) == \A i \in 1..Len(s) : s[i] # ByteFF

\* A control character (LINE FEED).
LineFeed == "U+000A"

\* HeaderValue::to_str().is_ok(): visible ASCII only
IsVisibleAscii(s) ==
    \A i \in 1..Len(s) : s[i] \notin {ByteFF, ArabicThree, LineFeed}

\* HeaderValue::from_str(s).is_ok(), s a str: no control character; the bytes
\* of a character outside ASCII are accepted
IsHeaderValueText(s) == \A i \in 1..Len(s) : s[i] # LineFeed

RECURSIVE ToDecimal(_)
\* the decimal digits of a natural number
ToDecimal(n) ==
    IF n < 10 THEN <<Digits[n + 1]>>
    ELSE Append(ToDecimal(n \div 10), Digits[(n % 10) + 1])

RECURSIVE StripZeros(_)
StripZeros(s) ==
    IF Len(s) > 1 /\ s[1] = "0" THEN StripZeros(Tail(s)) ELSE s

\* u64::MAX = 18446744073709551615
U64MaxDigits == <<"1", "8", "4", "4", "6", "7", "4", "4", "0", "7",
                  "3", "7", "0", "9", "5", "5", "1", "6", "1", "5">>

RECURSIVE DigitsLeq(_, _)
\* a <= b for two digit sequences of the same length
DigitsLeq(a, b) ==
    IF Len(a) = 0 THEN TRUE
    ELSE IF DigitVal(a[1]) < DigitVal(b[1]) THEN TRUE
    ELSE IF DigitVal(a[1]) > DigitVal(b[1]) THEN FALSE
    ELSE DigitsLeq(Tail(a), Tail(b))

\* a <= b for two digit sequences without leading zeros
MagLeq(a, b) == Len(a) < Len(b) \/ (Len(a) = Len(b) /\ DigitsLeq(a, b))

\* a digit sequence filled with zeros on the left to n digits
PadLeft(s, n) ==
    [i \in 1..n |-> IF i <= n - Len(s) THEN "0" ELSE s[i - (n - Len(s))]]

RECURSIVE AddAligned(_, _, _)
\* a + b + carry for two digit sequences of the same length
AddAligned(a, b, carry) ==
    IF Len(a) = 0 THEN <<Digits[carry + 1]>>
    ELSE LET n == Len(a)
             sum == DigitVal(a[n]) + DigitVal(b[n]) + carry
         IN Append(AddAligned(SubSeq(a, 1, n - 1), SubSeq(b, 1, n - 1),
                              sum \div 10),
                   Digits[(sum % 10) + 1])

RECURSIVE SubAligned(_, _, _)
\* a - b - borrow for two digit sequences of the same length, a >= b
SubAligned(a, b, borrow) ==
    IF Len(a) = 0 THEN <<>>
    ELSE LET n == Len(a)
             diff == DigitVal(a[n]) - DigitVal(b[n]) - borrow
         IN Append(SubAligned(SubSeq(a, 1, n - 1), SubSeq(b, 1, n - 1),
                              IF diff < 0 THEN 1 ELSE 0),
                   Digits[(IF diff < 0 THEN diff + 10 ELSE diff) + 1])

MagAdd(a, b) ==
    LET n == IF Len(a) > Len(b) THEN Len(a) ELSE Len(b) IN
    StripZeros(AddAligned(PadLeft(a, n), PadLeft(b, n), 0))

\* a - b for a >= b
MagSub(a, b) == StripZeros(SubAligned(a, PadLeft(b, Len(a)), 0))

\* An integer of the program (u64, i64, a count of seconds since the epoch):
\* a sign and the decimal digits of the magnitude, so that values beyond the
\* range of the checker's own arithmetic keep their exact value.
MkNum(neg, digits) ==
    LET z == StripZeros(digits) IN [neg |-> neg /\ z # <<"0">>, d |-> z]

\* the integer n
NumOf(n) == IF n < 0 THEN MkNum(TRUE, ToDecimal(0 - n))
            ELSE MkNum(FALSE, ToDecimal(n))

NumNeg(a) == MkNum(~a.neg, a.d)

NumAdd(a, b) ==
    IF a.neg = b.neg THEN MkNum(a.neg, MagAdd(a.d, b.d))
    ELSE IF MagLeq(b.d, a.d) THEN MkNum(a.neg, MagSub(a.d, b.d))
    ELSE MkNum(b.neg, MagSub(b.d, a.d))

NumLeq(a, b) ==
    IF a.neg /\ ~b.neg THEN TRUE
    ELSE IF ~a.neg /\ b.neg THEN FALSE
    ELSE IF a.neg THEN MagLeq(b.d, a.d)
    ELSE MagLeq(a.d, b.d)

NumLt(a, b) == ~NumLeq(b, a)

\* u64::from_str_radix(age, 10): one + may come first; Err without a digit,
\* on a character that is not an ASCII digit and on a value above u64::MAX.
U64FromStr(s) ==
    LET digits == IF Len(s) > 0 /\ s[1] = "+" THEN Tail(s) ELSE s IN
    IF Len(digits) = 0 \/ \E i \in 1..Len(digits) : ~IsAsciiDigit(digits[i])
    THEN [ok |-> FALSE, v |-> NumOf(0)]
    ELSE LET z == StripZeros(digits) IN
         IF ~MagLeq(z, U64MaxDigits)
         THEN [ok |-> FALSE, v |-> NumOf(0)]
         ELSE [ok |-> TRUE, v |-> MkNum(FALSE, z)]

\* i64::MAX = 2^63 - 1
I64Max == MkNum(FALSE, <<"9", "2", "2", "3", "3", "7", "2", "0", "3", "6", "8", "5", "4", "7", "7", "5", "8", "0", "7">>)

\* 2^64
TwoTo64 == MkNum(FALSE, <<"1", "8", "4", "4", "6", "7", "4", "4", "0", "7", "3", "7", "0", "9", "5", "5", "1", "6", "1", "6">>)

\* secs as i64: the value modulo 2^64, read as a signed 64-bit integer
AsI64(v) == IF NumLeq(v, I64Max) THEN v ELSE NumAdd(v, NumNeg(TwoTo64))

\* chrono: the largest count of whole seconds of a Duration (i64::MAX
\* milliseconds); Duration::seconds panics beyond it, in either direction
MaxDurationSecs == MkNum(FALSE, <<"9", "2", "2", "3", "3", "7", "2", "0", "3", "6", "8", "5", "4", "7", "7", "5">>)

\* chrono: DateTime::<Utc>::MAX_UTC (262142-12-31T23:59:59) and MIN_UTC
\* (-262143-01-01T00:00:00) in seconds since the epoch
MaxDateTime == MkNum(FALSE, <<"8", "2", "1", "0", "2", "6", "6", "8", "7", "6", "7", "9", "9">>)
MinDateTime == MkNum(TRUE, <<"8", "3", "3", "4", "6", "0", "1", "2", "2", "8", "8", "0", "0">>)

InDateTimeRange(x) == NumLeq(MinDateTime, x) /\ NumLeq(x, MaxDateTime)

-----------------------------------------------------------------------------
(* URLs and the cache key *)

UrlA == "https://example.test/a.bin"
UrlB == "https://example.test/b.bin"

Urls == {UrlA, UrlB}

\* format!("{:x}", md5(url)): the digests of the URLs of the model
Md5Hex(url) ==
    CASE url = UrlA -> "dc56139893d39d4111ff264d2f56089f"
      [] url = UrlB -> "1b3d56eab7845454637299420249708e"
      [] url = "https://example.test/a.bin?x=1" ->
            "8f4e363a16ad319dcc92c045608d8cac"
      [] url = "https://EXAMPLE.test/a.bin" ->
            "af06f4a46c656c39ee7e8cbf3f6e9842"
      [] url = "https://example.test/a.bin/" ->
            "81d5bb9f4846ef135a7375f666a37615"
      [] url = "http://example.test/a.bin" ->
            "7825f68d6c3649cbf73f027f42c8da0d"
      [] url = "" -> "d41d8cd98f00b204e9800998ecf8427e"

\* a variant that hashes a fixed string instead of the URL
get_url_cache_dir_FixedKey(url_str) == Md5Hex(UrlA)

\* cache.rs: <user cache>/<package>/http/<md5(url)>
get_url_cache_dir(url_str) == Md5Hex(url_str)

\* caching_client.rs: <cache_dir>/<md5(url)>
url_cache_path(url) == Md5Hex(url)

Keys == {Md5Hex(u) : u \in Urls}

-----------------------------------------------------------------------------
(* JSON documents (serde_json) *)

JNull == <<"null">>
JStr(s) == <<"str", s>>
JArr(a) == <<"arr", a>>
JObj(f) == <<"obj", f>>
\* a file of zero bytes: serde_json fails with EOF while parsing a value
JEmpty == <<"empty">>

IsJNull(j) == j[1] = "null"
IsJStr(j) == j[1] = "str"
IsJArr(j) == j[1] = "arr"
IsJObj(j) == j[1] = "obj"

\* the member k of a JSON object, JNull when it has none (serde reads a missing
\* Option field as None)
Member(j, k) == IF k \in DOMAIN j[2] THEN j[2][k] ELSE JNull

\* chrono's serde form of DateTime<Utc>: a string (here: the seconds since the
\* epoch in decimal, with a minus sign before the epoch)
FormatTime(t) == IF t.neg THEN <<"-">> \o t.d ELSE t.d

\* the string is read back if it denotes a time in the range of DateTime<Utc>
ParseTime(s) ==
    LET neg == Len(s) > 0 /\ s[1] = "-"
        digits == IF neg THEN Tail(s) ELSE s
    IN IF Len(digits) = 0 \/ \E i \in 1..Len(digits) : ~IsAsciiDigit(digits[i])
       THEN [ok |-> FALSE, v |-> NumOf(0)]
       ELSE LET x == MkNum(neg, digits) IN
            IF InDateTimeRange(x) THEN [ok |-> TRUE, v |-> x]
            ELSE [ok |-> FALSE, v |-> NumOf(0)]

-----------------------------------------------------------------------------
(* cache.rs: CacheControl *)

NoStore == <<"NoStore">>
NoCache == <<"NoCache">>
MustRevalidate == <<"MustRevalidate">>
Expires(t) == <<"Expires", t>>

IsExpires(cc) == cc[1] = "Expires"

\* the names serde writes for the unit variants
NoStoreName == <<"N", "o", "S", "t", "o", "r", "e">>
NoCacheName == <<"N", "o", "C", "a", "c", "h", "e">>
MustRevalidateName ==
    <<"M", "u", "s", "t", "R", "e", "v", "a", "l", "i", "d", "a", "t", "e">>

MaxAgePrefix == <<"m", "a", "x", "-", "a", "g", "e", "=">>

\* MAX_AGE_RE = ^max-age=(?P<age>\d+)$
MaxAgeMatches(content) ==
    /\ Len(content) > Len(MaxAgePrefix)
    /\ SubSeq(content, 1, Len(MaxAgePrefix)) = MaxAgePrefix
    /\ \A i \in (Len(MaxAgePrefix) + 1)..Len(content) : IsRegexDigit(content[i])

MaxAgeCapture(content) == SubSeq(content, Len(MaxAgePrefix) + 1, Len(content))

\* impl TryFrom<&str> for CacheControl, called when the clock shows t.
\* Line 75: the digits are read as a u64. Line 76: secs as i64 wraps, and
\* Duration::seconds panics on a count beyond its range. Line 82:
\* now + duration panics when the sum is no DateTime.
CacheControlTryFrom(content, t) ==
    IF MaxAgeMatches(content)
    THEN LET secs == U64FromStr(MaxAgeCapture(content))
             duration == AsI64(secs.v)
             expires == NumAdd(NumOf(t), duration)
         IN IF ~secs.ok
            THEN [ok |-> FALSE, panic |-> FALSE, v |-> MustRevalidate]
            ELSE IF ~(/\ NumLeq(NumNeg(MaxDurationSecs), duration)
                      /\ NumLeq(duration, MaxDurationSecs))
            THEN [ok |-> FALSE, panic |-> TRUE, v |-> MustRevalidate]
            ELSE IF ~InDateTimeRange(expires)
            THEN [ok |-> FALSE, panic |-> TRUE, v |-> MustRevalidate]
            ELSE [ok |-> TRUE, panic |-> FALSE, v |-> Expires(expires)]
    ELSE [ok |-> TRUE, panic |-> FALSE, v |-> MustRevalidate]

-----------------------------------------------------------------------------
(* cache.rs: CacheHeaders and its JSON form *)

\* CacheHeaders::new(url)
CacheHeadersNew(url) ==
    [source |-> Some(url), cache_control |-> None,
     last_modified |-> None, etag |-> None]

\* Option<String> in the JSON record: the string, or null
SerOptStr(o) == IF IsSome(o) THEN JStr(Unwrap(o)) ELSE JNull

\* a variant that writes NoCache under the name of NoStore
SerCacheControl_NoCacheRenamed(cc) ==
    CASE cc = NoStore -> JStr(NoStoreName)
      [] cc = NoCache -> JStr(NoStoreName)
      [] cc = MustRevalidate -> JStr(MustRevalidateName)
      [] OTHER -> JObj([Expires |-> JStr(FormatTime(cc[2]))])

\* #[derive(Serialize)] for CacheControl: a unit variant is its name, Expires
\* an object with the one member Expires
SerCacheControl(cc) ==
    CASE cc = NoStore -> JStr(NoStoreName)
      [] cc = NoCache -> JStr(NoCacheName)
      [] cc = MustRevalidate -> JStr(MustRevalidateName)
      [] OTHER -> JObj([Expires |-> JStr(FormatTime(cc[2]))])

\* #[derive(Serialize)] for CacheHeaders, written by to_writer_pretty
SerCacheHeaders(m) ==
    JObj([source |-> SerOptStr(m.source),
          cache_control |-> IF IsSome(m.cache_control)
                            THEN SerCacheControl(Unwrap(m.cache_control))
                            ELSE JNull,
          last_modified |-> SerOptStr(m.last_modified),
          etag |-> SerOptStr(m.etag)])

DeOptStr(j) ==
    IF IsJNull(j) THEN [ok |-> TRUE, v |-> None]
    ELSE IF IsJStr(j) THEN [ok |-> TRUE, v |-> Some(j[2])]
    ELSE [ok |-> FALSE, v |-> None]

\* #[derive(Deserialize)] for CacheControl (an externally tagged enum): a
\* unit variant is its name, or an object with the name as its one member and
\* null as the value; Expires is an object with the one member Expires
DeCacheControl(j) ==
    IF IsJStr(j)
    THEN CASE j[2] = NoStoreName -> [ok |-> TRUE, v |-> NoStore]
           [] j[2] = NoCacheName -> [ok |-> TRUE, v |-> NoCache]
           [] j[2] = MustRevalidateName -> [ok |-> TRUE, v |-> MustRevalidate]
           [] OTHER -> [ok |-> FALSE, v |-> MustRevalidate]
    ELSE IF IsJObj(j) /\ DOMAIN j[2] = {"Expires"} /\ IsJStr(j[2]["Expires"])
    THEN LET t == ParseTime(j[2]["Expires"][2]) IN
         IF t.ok THEN [ok |-> TRUE, v |-> Expires(t.v)]
         ELSE [ok |-> FALSE, v |-> MustRevalidate]
    ELSE IF IsJObj(j) /\ DOMAIN j[2] = {"NoStore"} /\ IsJNull(j[2]["NoStore"])
    THEN [ok |-> TRUE, v |-> NoStore]
    ELSE IF IsJObj(j) /\ DOMAIN j[2] = {"NoCache"} /\ IsJNull(j[2]["NoCache"])
    THEN [ok |-> TRUE, v |-> NoCache]
    ELSE IF /\ IsJObj(j) /\ DOMAIN j[2] = {"MustRevalidate"}
            /\ IsJNull(j[2]["MustRevalidate"])
    THEN [ok |-> TRUE, v |-> MustRevalidate]
    ELSE [ok |-> FALSE, v |-> MustRevalidate]

DeOptCacheControl(j) ==
    IF IsJNull(j) THEN [ok |-> TRUE, v |-> None]
    ELSE LET c == DeCacheControl(j) IN
         IF c.ok THEN [ok |-> TRUE, v |-> Some(c.v)]
         ELSE [ok |-> FALSE, v |-> None]

\* how serde reads a struct of the given fields from a JSON document: from
\* an object by member name (a missing member reads as null), or from an array
\* of exactly as many elements by position; any other document is an error
StructFields(doc, names) ==
    IF IsJObj(doc)
    THEN [ok |-> TRUE, f |-> [i \in 1..Len(names) |-> Member(doc, names[i])]]
    ELSE IF IsJArr(doc) /\ Len(doc[2]) = Len(names)
    THEN [ok |-> TRUE, f |-> doc[2]]
    ELSE [ok |-> FALSE, f |-> <<>>]

\* the fields of struct CacheHeaders, in the order of their declaration
CacheHeadersFieldNames == <<"source", "cache_control", "last_modified", "etag">>

\* a variant that reads a file it cannot deserialize as "no cache"
CacheHeadersTryFrom_Lenient(doc) ==
    LET fields == StructFields(doc, CacheHeadersFieldNames) IN
    IF ~fields.ok THEN [ok |-> TRUE, v |-> CacheHeadersNew(UrlA)]
    ELSE LET s == DeOptStr(fields.f[1])
             c == DeOptCacheControl(fields.f[2])
             l == DeOptStr(fields.f[3])
             e == DeOptStr(fields.f[4])
         IN IF s.ok /\ c.ok /\ l.ok /\ e.ok
            THEN [ok |-> TRUE,
                  v |-> [source |-> s.v, cache_control |-> c.v,
                         last_modified |-> l.v, etag |-> e.v]]
            ELSE [ok |-> TRUE, v |-> CacheHeadersNew(UrlA)]

\* impl TryFrom<&Path> for CacheHeaders: serde_json::from_reader of the file
CacheHeadersTryFrom(doc) ==
    LET fields == StructFields(doc, CacheHeadersFieldNames) IN
    IF ~fields.ok THEN [ok |-> FALSE, v |-> CacheHeadersNew(UrlA)]
    ELSE LET s == DeOptStr(fields.f[1])
             c == DeOptCacheControl(fields.f[2])
             l == DeOptStr(fields.f[3])
             e == DeOptStr(fields.f[4])
         IN IF s.ok /\ c.ok /\ l.ok /\ e.ok
            THEN [ok |-> TRUE,
                  v |-> [source |-> s.v, cache_control |-> c.v,
                         last_modified |-> l.v, etag |-> e.v]]
            ELSE [ok |-> FALSE, v |-> CacheHeadersNew(UrlA)]

-----------------------------------------------------------------------------
(* HTTP: header maps, the responses the origin may give *)

\* a HeaderMap is a sequence of <<name, value>>, names in lower case
RECURSIVE HeaderGetAll(_, _)
\* HeaderMap::get_all(name): the values under a name, in order
HeaderGetAll(headers, name) ==
    IF Len(headers) = 0 THEN <<>>
    ELSE IF headers[1][1] = name
         THEN <<headers[1][2]>> \o HeaderGetAll(Tail(headers), name)
         ELSE HeaderGetAll(Tail(headers), name)

\* HeaderMap::get(name): the first value under a name
HeaderGet(headers, name) ==
    LET all == HeaderGetAll(headers, name) IN
    IF Len(all) = 0 THEN None ELSE Some(all[1])

\* a variant that also takes 3xx statuses up to 304 for success
IsSuccess_Through304(status) == 200 <= status /\ status <= 304

\* a variant without the upper limit of the 2xx class
IsSuccess_NoUpperBound(status) == 200 <= status

\* StatusCode::is_success
IsSuccess(status) == 200 <= status /\ status <= 299

\* StatusCode::NOT_MODIFIED
NotModified == 304

V1 == <<"\"", "v", "1", "\"">>
V2 == <<"\"", "v", "2", "\"">>
D1 == <<"M", "o", "n">>
BadBytes == <<ByteFF>>

MaxAge0 == MaxAgePrefix \o <<"0">>
MaxAge1 == MaxAgePrefix \o <<"1">>
MaxAgeArabic == MaxAgePrefix \o <<ArabicThree>>
NoCacheDirective == <<"n", "o", "-", "c", "a", "c", "h", "e">>
MaxAgePublic == MaxAge1 \o <<",", "p", "u", "b", "l", "i", "c">>
\* max-age of u64::MAX seconds: as an i64 it is -1
MaxAgeU64Max == MaxAgePrefix \o U64MaxDigits
\* max-age of i64::MAX seconds: more than a Duration holds
MaxAgeI64Max == MaxAgePrefix \o I64Max.d
\* max-age of the most seconds a Duration holds: past the last DateTime
MaxAgeLongest == MaxAgePrefix \o MaxDurationSecs.d
\* max-age of 2^64 - 8334601228801 seconds: as an i64 the second before the
\* first DateTime, so that the sum is a DateTime from the clock's second 1 on
MaxAgeBeforeMin ==
    MaxAgePrefix \o NumAdd(TwoTo64, NumAdd(MinDateTime, NumOf(0 - 1))).d

\* bodies
B0 == <<9>>
B1 == <<1, 2>>
B2 == <<3>>

Bodies == {B1, B2}

EtagChoices == {None, Some(V1), Some(V2)}
LastModifiedChoices == {None, Some(D1)}
CacheControlChoices ==
    {<<>>, <<MaxAge0>>, <<NoCacheDirective>>, <<MaxAgeArabic, MaxAge1>>}

Statuses == {200, NotModified, 404, 500}

MkHeaders(etag, lm, ccs) ==
    (IF IsSome(etag) THEN <<(<<"etag", Unwrap(etag)>>)>> ELSE <<>>)
    \o (IF IsSome(lm) THEN <<(<<"last-modified", Unwrap(lm)>>)>> ELSE <<>>)
    \o [i \in 1..Len(ccs) |-> <<"cache-control", ccs[i]>>]

MkResponse(status, url, etag, lm, ccs, body) ==
    [status |-> status, url |-> url, headers |-> MkHeaders(etag, lm, ccs),
     body |-> body]

NoResponse == MkResponse(0, UrlA, None, None, <<>>, <<>>)

\* What the origin may answer to a request for url: a 2xx with any choice of
\* validators and cache-control values, a 2xx with another body, a 2xx with
\* a header value that is not text, a 2xx reached through a redirect (the
\* final URL differs from the request URL), a 304, a 304 reached through a
\* redirect, an error status.
Responses(url) ==
    {MkResponse(200, url, e, l, c, B1) :
        e \in EtagChoices, l \in LastModifiedChoices,
        c \in CacheControlChoices}
    \cup {MkResponse(200, url, e, None, <<>>, B2) : e \in {None, Some(V1)}}
    \cup {MkResponse(200, url, Some(V2), None, <<MaxAgePublic>>, B2),
          MkResponse(200, url, Some(V2), None, <<BadBytes>>, B2)}
    \cup {MkResponse(200, url, Some(V2), None, <<c>>, B2) :
            c \in {MaxAgeU64Max, MaxAgeI64Max, MaxAgeLongest,
                   MaxAgeBeforeMin}}
    \cup {MkResponse(200, url, Some(BadBytes), None, <<>>, B1),
          MkResponse(200, url, Some(V1), Some(BadBytes), <<>>, B1)}
    \cup {MkResponse(200, f, e, None, <<>>, B2) :
            f \in Urls \ {url}, e \in {None, Some(V2)}}
    \cup {MkResponse(NotModified, f, None, None, <<>>, <<>>) :
            f \in Urls \ {url}}
    \cup {MkResponse(st, url, None, None, <<>>, <<>>) :
            st \in Statuses \ {200}}

\* how many bytes one read of the body may return while unread is left of it:
\* io::copy reads into the free space of the BufWriter, which it has emptied
\* into the file before, so at least one byte and at most the capacity
ReadSizes(unread) ==
    {n \in 1..Len(unread) : n <= BufCapacity}

-----------------------------------------------------------------------------
(* The cache root *)

NoEntry == [dir |-> FALSE, data |-> None, meta |-> None]

Callers == {"p1", "p2"}

\* Result<PathBuf>
NoResult == <<"None">>
Ok(path) == <<"Ok", path>>
Err(kind, code) == <<"Err", kind, code>>

\* error.rs: impl From<StatusCode> for Error
ErrorFromStatus(status) == Err("HttpStatusError", status)

IsOk(r) == r[1] = "Ok"
IsErr(r) == r[1] = "Err"

\* the path of an entry's data artifact: <entry dir>/data
DataPath(key) == <<key, "data">>

\* no operation outside the fetcher runs
NoJob == [pc |-> "none"]

IdleCall ==
    [pc |-> "idle", url |-> UrlA, at |-> 0, req |-> <<>>, resp |-> NoResponse,
     metadata |-> CacheHeadersNew(UrlA), unread |-> <<>>,
     calls |-> 0,
     result |-> NoResult, pre |-> [k \in Keys |-> NoEntry]]

-----------------------------------------------------------------------------
(* cache.rs: get_url_metadata *)

WithoutValidators(m) == [m EXCEPT !.etag = None, !.last_modified = None]

\* a variant whose last arm strips the validators
EvaluateCacheControl_LastArmStrips(m, t) ==
    IF IsNone(m.cache_control) THEN WithoutValidators(m)
    ELSE LET cc == Unwrap(m.cache_control) IN
         IF cc = NoStore THEN WithoutValidators(m)
         ELSE IF IsExpires(cc) /\ NumLeq(NumOf(t), cc[2]) THEN m
         ELSE WithoutValidators(m)

\* a variant whose arm for an Expires that has not lapsed strips the
\* validators
EvaluateCacheControl_FreshStrips(m, t) ==
    IF IsNone(m.cache_control) THEN WithoutValidators(m)
    ELSE LET cc == Unwrap(m.cache_control) IN
         IF cc = NoStore THEN WithoutValidators(m)
         ELSE IF IsExpires(cc) /\ NumLeq(NumOf(t), cc[2]) THEN WithoutValidators(m)
         ELSE m

\* a variant without the NoStore arm
EvaluateCacheControl_NoStoreArmMissing(m, t) ==
    IF IsNone(m.cache_control) THEN WithoutValidators(m)
    ELSE LET cc == Unwrap(m.cache_control) IN
         IF IsExpires(cc) /\ NumLeq(NumOf(t), cc[2]) THEN m
         ELSE m

\* the match on metadata.cache_control, evaluated when the clock shows t
EvaluateCacheControl(m, t) ==
    IF IsNone(m.cache_control) THEN WithoutValidators(m)
    ELSE LET cc == Unwrap(m.cache_control) IN
         IF cc = NoStore THEN WithoutValidators(m)
         ELSE IF IsExpires(cc) /\ NumLeq(NumOf(t), cc[2]) THEN m
         ELSE m

\* get_url_metadata(url_str) on the cache root d when the clock shows t
get_url_metadata(d, url_str, t) ==
    LET url_cache == get_url_cache_dir(url_str)
        loaded == IF IsSome(d[url_cache].meta)
                  THEN CacheHeadersTryFrom(Unwrap(d[url_cache].meta))
                  ELSE [ok |-> TRUE, v |-> CacheHeadersNew(url_str)]
    IN IF loaded.ok
       THEN [ok |-> TRUE, v |-> EvaluateCacheControl(loaded.v, t)]
       ELSE loaded

\* the conditional headers cached_get_path puts on the request
CacheRequestHeaders(m) ==
    (IF IsSome(m.etag)
     THEN <<(<<"if-none-match", Unwrap(m.etag)>>)>> ELSE <<>>)
    \o (IF IsSome(m.last_modified)
        THEN <<(<<"if-modified-since", Unwrap(m.last_modified)>>)>> ELSE <<>>)

RECURSIVE FirstCacheControl(_, _)
\* headers.get_all(CACHE_CONTROL).iter().filter_map(..).next(): the first value
\* that is UTF-8 and that CacheControl::try_from accepts
FirstCacheControl(values, t) ==
    IF Len(values) = 0 THEN None
    ELSE LET c == CacheControlTryFrom(values[1], t) IN
         IF IsUtf8(values[1]) /\ c.ok THEN Some(c.v)
         ELSE FirstCacheControl(Tail(values), t)

RECURSIVE CacheControlPanics(_, _)
\* the same iteration panics: CacheControl::try_from panics on a value that
\* is reached, one that is UTF-8 with no accepted value before it
CacheControlPanics(values, t) ==
    IF Len(values) = 0 THEN FALSE
    ELSE LET c == CacheControlTryFrom(values[1], t) IN
         IF ~IsUtf8(values[1]) THEN CacheControlPanics(Tail(values), t)
         ELSE IF c.panic THEN TRUE
         ELSE IF c.ok THEN FALSE
         ELSE CacheControlPanics(Tail(values), t)

\* a variant that forgets the Last-Modified header
MetadataFromResponse_NoLastModified(url_str, resp, t) ==
    [source |-> Some(url_str),
     cache_control |->
        FirstCacheControl(HeaderGetAll(resp.headers, "cache-control"), t),
     last_modified |-> None,
     etag |-> HeaderGet(resp.headers, "etag")]

\* the CacheHeaders cached_get_path builds from a 2xx response at time t
MetadataFromResponse(url_str, resp, t) ==
    [source |-> Some(url_str),
     cache_control |->
        FirstCacheControl(HeaderGetAll(resp.headers, "cache-control"), t),
     last_modified |-> HeaderGet(resp.headers, "last-modified"),
     etag |-> HeaderGet(resp.headers, "etag")]

\* write(2) of bytes at offset off of a file that holds data: the bytes
\* replace what is there, the file grows as needed, a gap reads as zeros
WriteAt(data, off, bytes) ==
    IF bytes = <<>> THEN data
    ELSE [i \in 1..(IF Len(data) > off + Len(bytes) THEN Len(data)
                    ELSE off + Len(bytes)) |->
            IF i > off /\ i <= off + Len(bytes) THEN bytes[i - off]
            ELSE IF i <= Len(data) THEN data[i]
            ELSE 0]

\* a metadata file that holds the start of one record and the end of a longer
\* one: it does not deserialize
GarbledDoc == <<"garbled">>

\* the bytes of the body a copy has read, and put in the data file, so far:
\* the offset of its next write
CopyOffset(c) == Len(c.resp.body) - Len(c.unread)

\* the content of a metadata file after a writer that created it writes its
\* record at offset 0: the record, unless another writer has put a longer
\* record in the file since, whose tail then stays
RecordWritten(file, doc) ==
    IF file \in {None, Some(JEmpty), Some(doc)}
    THEN {Some(doc)}
    ELSE {Some(doc), Some(GarbledDoc)}

-----------------------------------------------------------------------------
(* cache.rs: cached_get_path, step by step *)

\* lines 155-169: load the metadata, build the request
CacheCall(p, u) ==
    /\ api = "cache"
    /\ p \in active
    /\ call[p].pc \in {"idle", "done"}
    /\ fetches < MaxFetches
    /\ fetches' = fetches + 1
    /\ LET m == get_url_metadata(disk, u, now) IN
       call' = [call EXCEPT ![p] =
            IF m.ok
            THEN [IdleCall EXCEPT !.pc = "sent", !.url = u, !.at = now,
                                  !.pre = disk, !.metadata = m.v,
                                  !.req = CacheRequestHeaders(m.v)]
            ELSE [IdleCall EXCEPT !.pc = "done", !.url = u, !.at = now,
                                  !.pre = disk,
                                  !.result = Err("JsonError", 0)]]
    /\ UNCHANGED <<job, api, disk, now, active>>

\* line 170: req.send() fails (no response)
CacheSendFails(p) ==
    /\ api = "cache"
    /\ call[p].pc = "sent"
    /\ call' = [call EXCEPT ![p].pc = "done",
                            ![p].result = Err("HttpError", 0)]
    /\ UNCHANGED <<job, api, disk, now, active, fetches>>

\* lines 170-177 and 219-233: the response arrives; the entry directory is
\* created; a 2xx goes on to the data artifact, a 304 returns the path, any
\* other status is an error
CacheRespond(p) ==
    /\ api = "cache"
    /\ call[p].pc = "sent"
    /\ \E r \in Responses(call[p].url) :
       LET k == get_url_cache_dir(call[p].url) IN
       IF IsSuccess(r.status)
       THEN /\ disk' = [disk EXCEPT ![k].dir = TRUE]
            /\ call' = [call EXCEPT ![p].pc = "create", ![p].resp = r,
                                    ![p].unread = r.body]
       ELSE IF r.status = NotModified
       THEN /\ disk' = [disk EXCEPT ![k].dir = TRUE]
            /\ call' = [call EXCEPT ![p].pc = "done", ![p].resp = r,
                                    ![p].result = Ok(DataPath(k))]
       ELSE /\ disk' = [disk EXCEPT ![k].dir = TRUE]
            /\ call' = [call EXCEPT ![p].pc = "done", ![p].resp = r,
                            ![p].result = ErrorFromStatus(r.status)]
    /\ UNCHANGED <<job, api, now, active, fetches>>

\* lines 183-185: File::create of the data artifact, which truncates it
CacheCreateData(p) ==
    /\ api = "cache"
    /\ call[p].pc = "create"
    /\ LET k == get_url_cache_dir(call[p].url) IN
       disk' = [disk EXCEPT ![k].data = Some(<<>>)]
    /\ call' = [call EXCEPT ![p].pc = "copy"]
    /\ UNCHANGED <<job, api, now, active, fetches>>

\* line 190, resp.copy_to(&mut out_file), one round of io::copy: a read of
\* the body returns n bytes, which the BufWriter writes to the data file
\* before the next read
CacheCopy(p) ==
    /\ api = "cache"
    /\ call[p].pc = "copy"
    /\ \E n \in ReadSizes(call[p].unread) :
       LET k == get_url_cache_dir(call[p].url)
           c == call[p]
       IN /\ disk' = [disk EXCEPT ![k].data =
                Some(WriteAt(Unwrap(@), CopyOffset(c), SubSeq(c.unread, 1, n)))]
          /\ call' = [call EXCEPT ![p].unread =
                                    SubSeq(c.unread, n + 1, Len(c.unread))]
    /\ UNCHANGED <<job, api, now, active, fetches>>

\* a variant in which copy_to may return Ok before the end of the body
CacheCopyEnd_Early(p) ==
    /\ api = "cache"
    /\ call[p].pc = "copy"
    /\ call' = [call EXCEPT ![p].pc = "headers"]
    /\ UNCHANGED <<job, api, disk, now, active, fetches>>

\* line 190: the read after the last byte returns 0 and copy_to returns Ok
CacheCopyEnd(p) ==
    /\ api = "cache"
    /\ call[p].pc = "copy"
    /\ call[p].unread = <<>>
    /\ call' = [call EXCEPT ![p].pc = "headers"]
    /\ UNCHANGED <<job, api, disk, now, active, fetches>>

\* line 190: a read of the body fails; copy_to and the function return the
\* error, what was read before stays in the data file
CacheCopyFails(p) ==
    /\ api = "cache"
    /\ call[p].pc = "copy"
    /\ call' = [call EXCEPT ![p].pc = "done",
                            ![p].result = Err("HttpError", 0)]
    /\ UNCHANGED <<job, api, disk, now, active, fetches>>

\* lines 193-217: the new CacheHeaders are built from the response headers
\* and the metadata file is created (truncated). A validator that is not
\* UTF-8 is an error and the function returns; a max-age beyond the range of
\* Duration or DateTime panics (lines 76, 82).
CacheHeadersStep(p) ==
    /\ api = "cache"
    /\ call[p].pc = "headers"
    /\ LET k == get_url_cache_dir(call[p].url)
           r == call[p].resp
           e == HeaderGet(r.headers, "etag")
           l == HeaderGet(r.headers, "last-modified")
       IN IF (IsSome(e) /\ ~IsUtf8(Unwrap(e)))
             \/ (IsSome(l) /\ ~IsUtf8(Unwrap(l)))
          THEN /\ disk' = disk
               /\ call' = [call EXCEPT ![p].pc = "done",
                                ![p].result = Err("Utf8ParseError", 0)]
          ELSE IF CacheControlPanics(HeaderGetAll(r.headers, "cache-control"),
                                     now)
          THEN /\ disk' = disk
               /\ call' = [call EXCEPT ![p].pc = "panicked"]
          ELSE /\ disk' = [disk EXCEPT ![k].meta = Some(JEmpty)]
               /\ call' = [call EXCEPT ![p].pc = "metadata",
                    ![p].metadata = MetadataFromResponse(call[p].url, r, now)]
    /\ UNCHANGED <<job, api, now, active, fetches>>

\* line 218 and the end of the block: the record reaches the file when the
\* BufWriter of the metadata file is dropped, the BufWriter of the data file,
\* which holds nothing, is dropped after it, and line 233 returns the path
CacheWriteMetadata(p) ==
    /\ api = "cache"
    /\ call[p].pc = "metadata"
    /\ LET k == get_url_cache_dir(call[p].url) IN
       /\ \E m \in RecordWritten(disk[k].meta,
                                  SerCacheHeaders(call[p].metadata)) :
             disk' = [disk EXCEPT ![k].meta = m]
       /\ call' = [call EXCEPT ![p].pc = "done",
                               ![p].result = Ok(DataPath(k))]
    /\ UNCHANGED <<job, api, now, active, fetches>>

-----------------------------------------------------------------------------
(* caching_client.rs: RequestMetadata and its JSON form *)

HeaderNames(headers) == {headers[i][1] : i \in 1..Len(headers)}

\* impl From<&reqwest::Response> for RequestMetadata, at time t
RequestMetadataFrom(resp, t) ==
    [source |-> resp.url, timestamp |-> NumOf(t),
     response_headers |->
        [n \in HeaderNames(resp.headers) |-> HeaderGetAll(resp.headers, n)]]

\* value.to_str().expect(..) panics in RequestMetadata::from
FromResponsePanics(resp) ==
    \E i \in 1..Len(resp.headers) : ~IsVisibleAscii(resp.headers[i][2])

\* #[derive(Serialize)] for RequestMetadata
SerRequestMetadata(m) ==
    JObj([source |-> JStr(m.source),
          timestamp |-> JStr(FormatTime(m.timestamp)),
          response_headers |->
            JObj([n \in DOMAIN m.response_headers |->
                    JArr([i \in 1..Len(m.response_headers[n]) |->
                            JStr(m.response_headers[n][i])])])])

NoRequestMetadata ==
    [source |-> UrlA, timestamp |-> NumOf(0), response_headers |-> <<>>]

\* the fields of struct RequestMetadata, in the order of their declaration
RequestMetadataFieldNames == <<"source", "timestamp", "response_headers">>

IsStringArray(j) ==
    IsJArr(j) /\ \A i \in 1..Len(j[2]) : IsJStr(j[2][i])

\* impl TryFrom<&Path> for RequestMetadata: serde_json::from_reader
\* (none of the three fields is an Option: a member that is missing, and so
\* reads as null here, is an error like any value of the wrong type)
RequestMetadataTryFrom(doc) ==
    LET fields == StructFields(doc, RequestMetadataFieldNames)
        timestamp == ParseTime(fields.f[2][2])
    IN
    IF /\ fields.ok
       /\ IsJStr(fields.f[1])
       /\ IsJStr(fields.f[2])
       /\ timestamp.ok
       /\ IsJObj(fields.f[3])
       /\ \A n \in DOMAIN fields.f[3][2] : IsStringArray(fields.f[3][2][n])
    THEN [ok |-> TRUE,
          v |-> [source |-> fields.f[1][2],
                 timestamp |-> timestamp.v,
                 response_headers |->
                    LET h == fields.f[3][2] IN
                    [n \in DOMAIN h |->
                        [i \in 1..Len(h[n][2]) |-> h[n][2][i][2]]]]]
    ELSE [ok |-> FALSE, v |-> NoRequestMetadata]

StoredValues(m, name) ==
    IF name \in DOMAIN m.response_headers
    THEN m.response_headers[name] ELSE <<>>

\* impl Into<HeaderMap> for RequestMetadata
RequestMetadataInto(m) ==
    LET etags == StoredValues(m, "etag")
        modifieds == StoredValues(m, "last-modified")
    IN [i \in 1..Len(etags) |-> <<"if-none-match", etags[i]>>]
       \o [i \in 1..Len(modifieds) |-> <<"if-modified-since", modifieds[i]>>]

\* HeaderValue::from_str(..).expect(..) panics in the conversion
IntoPanics(m) ==
    \E n \in {"etag", "last-modified"} :
        \E i \in 1..Len(StoredValues(m, n)) :
            ~IsHeaderValueText(StoredValues(m, n)[i])

-----------------------------------------------------------------------------
(* caching_client.rs: CachedRequest::send *)

\* lines 187-197: load the metadata of the request URL, extend the headers
ClientSend(p, u) ==
    /\ api = "client"
    /\ p \in active
    /\ call[p].pc \in {"idle", "done", "response"}
    /\ fetches < MaxFetches
    /\ fetches' = fetches + 1
    /\ LET k == url_cache_path(u)
           m == IF IsSome(disk[k].meta)
                THEN RequestMetadataTryFrom(Unwrap(disk[k].meta))
                ELSE [ok |-> TRUE, v |-> NoRequestMetadata]
       IN call' = [call EXCEPT ![p] =
            IF ~m.ok
            THEN [IdleCall EXCEPT !.pc = "done", !.url = u, !.at = now,
                                  !.pre = disk,
                                  !.result = Err("JsonError", 0)]
            ELSE IF IntoPanics(m.v)
            THEN [IdleCall EXCEPT !.pc = "panicked", !.url = u, !.at = now,
                                  !.pre = disk]
            ELSE [IdleCall EXCEPT !.pc = "sent", !.url = u, !.at = now,
                                  !.pre = disk,
                                  !.req = RequestMetadataInto(m.v)]]
    /\ UNCHANGED <<job, api, disk, now, active>>

\* line 200: client.execute fails
ClientSendFails(p) ==
    /\ api = "client"
    /\ call[p].pc = "sent"
    /\ call' = [call EXCEPT ![p].pc = "done",
                            ![p].result = Err("HttpError", 0)]
    /\ UNCHANGED <<job, api, disk, now, active, fetches>>

\* lines 199-201: the response arrives and is wrapped in a CachedResponse
ClientRespond(p) ==
    /\ api = "client"
    /\ call[p].pc = "sent"
    /\ \E r \in Responses(call[p].url) :
       call' = [call EXCEPT ![p].pc = "response", ![p].resp = r,
                            ![p].unread = r.body]
    /\ UNCHANGED <<job, api, disk, now, active, fetches>>

-----------------------------------------------------------------------------
(* caching_client.rs: CachedResponse::cached_file_path and update_cache *)

\* lines 348-368 and 321: the status decides; on 2xx update_cache creates
\* the directory of the response URL and goes on to the data artifact
ClientCachedFilePath(p) ==
    /\ api = "client"
    /\ call[p].pc = "response"
    /\ call[p].calls < MaxAccessorCalls
    /\ LET r == call[p].resp
           k == url_cache_path(r.url)
       IN IF IsSuccess(r.status)
          THEN /\ disk' = [disk EXCEPT ![k].dir = TRUE]
               /\ call' = [call EXCEPT ![p].pc = "create",
                                       ![p].calls = @ + 1,
                                       ![p].result = NoResult]
          ELSE IF r.status = NotModified
          THEN /\ disk' = disk
               /\ call' = [call EXCEPT ![p].calls = @ + 1,
                                       ![p].result = Ok(DataPath(k))]
          ELSE /\ disk' = disk
               /\ call' = [call EXCEPT ![p].calls = @ + 1,
                            ![p].result = ErrorFromStatus(r.status)]
    /\ UNCHANGED <<job, api, now, active, fetches>>

\* lines 329-331: File::create of the data artifact, which truncates it
ClientCreateData(p) ==
    /\ api = "client"
    /\ call[p].pc = "create"
    /\ LET k == url_cache_path(call[p].resp.url) IN
       disk' = [disk EXCEPT ![k].data = Some(<<>>)]
    /\ call' = [call EXCEPT ![p].pc = "copy"]
    /\ UNCHANGED <<job, api, now, active, fetches>>

\* line 333, self.response.copy_to(&mut out_file), one round of io::copy: a
\* read of what is left of the body returns n bytes, which the BufWriter
\* writes to the data file before the next read
ClientCopy(p) ==
    /\ api = "client"
    /\ call[p].pc = "copy"
    /\ \E n \in ReadSizes(call[p].unread) :
       LET c == call[p]
           k == url_cache_path(c.resp.url)
       IN /\ disk' = [disk EXCEPT ![k].data =
                Some(WriteAt(Unwrap(@), CopyOffset(c), SubSeq(c.unread, 1, n)))]
          /\ call' = [call EXCEPT ![p].unread =
                                    SubSeq(c.unread, n + 1, Len(c.unread))]
    /\ UNCHANGED <<job, api, now, active, fetches>>

\* a variant in which copy_to may return Ok before the end of the body
ClientCopyEnd_Early(p) ==
    /\ api = "client"
    /\ call[p].pc = "copy"
    /\ call' = [call EXCEPT ![p].pc = "headers"]
    /\ UNCHANGED <<job, api, disk, now, active, fetches>>

\* line 333: the read after the last byte returns 0 and copy_to returns Ok
ClientCopyEnd(p) ==
    /\ api = "client"
    /\ call[p].pc = "copy"
    /\ call[p].unread = <<>>
    /\ call' = [call EXCEPT ![p].pc = "headers"]
    /\ UNCHANGED <<job, api, disk, now, active, fetches>>

\* line 333: a read of the body fails; update_cache returns the error, what
\* was read before stays in the data file and the response yields no more
ClientCopyFails(p) ==
    /\ api = "client"
    /\ call[p].pc = "copy"
    /\ call' = [call EXCEPT ![p].pc = "response", ![p].unread = <<>>,
                            ![p].result = Err("HttpError", 0)]
    /\ UNCHANGED <<job, api, disk, now, active, fetches>>

\* lines 341-344: RequestMetadata::from(&self.response), then the metadata
\* file is created (truncated). A header value that is not visible ASCII
\* panics.
ClientHeadersStep(p) ==
    /\ api = "client"
    /\ call[p].pc = "headers"
    /\ LET r == call[p].resp
           k == url_cache_path(r.url)
       IN IF FromResponsePanics(r)
          THEN /\ disk' = disk
               /\ call' = [call EXCEPT ![p].pc = "panicked"]
          ELSE /\ disk' = [disk EXCEPT ![k].meta = Some(JEmpty)]
               /\ call' = [call EXCEPT ![p].pc = "metadata",
                                ![p].metadata = RequestMetadataFrom(r, now)]
    /\ UNCHANGED <<job, api, now, active, fetches>>

\* line 345 and the end of update_cache: the record reaches the file when
\* the BufWriter of the metadata file is dropped, the BufWriter of the data
\* file, which holds nothing, is dropped after it; update_cache returns Ok
\* and cached_file_path the data path of the response URL (line 367)
ClientWriteMetadata(p) ==
    /\ api = "client"
    /\ call[p].pc = "metadata"
    /\ LET k == url_cache_path(call[p].resp.url) IN
       /\ \E m \in RecordWritten(disk[k].meta,
                                  SerRequestMetadata(call[p].metadata)) :
             disk' = [disk EXCEPT ![k].meta = m]
       /\ call' = [call EXCEPT ![p].pc = "response",
                               ![p].result = Ok(DataPath(k))]
    /\ UNCHANGED <<job, api, now, active, fetches>>

-----------------------------------------------------------------------------
(* The clock *)

Tick ==
    /\ now < MaxTime
    /\ now' = now + 1
    /\ UNCHANGED <<job, api, disk, call, active, fetches>>

-----------------------------------------------------------------------------
(* Initial states: the cache root as an earlier run may have left it *)

KeyA == Md5Hex(UrlA)
KeyB == Md5Hex(UrlB)

\* records of cache.rs that only an earlier version of the tool, or another
\* writer of the cache directory, can have stored (TryFrom<&str> never yields
\* NoStore or NoCache)
InitCacheRecords ==
    {[source |-> Some(UrlA), cache_control |-> Some(NoCache),
      last_modified |-> l, etag |-> e] :
        e \in {None, Some(V1)}, l \in {None, Some(D1)}}
    \cup
    {[source |-> Some(UrlA), cache_control |-> Some(NoStore),
      last_modified |-> l, etag |-> Some(V1)] : l \in {None, Some(D1)}}
    \cup
    {[source |-> Some(UrlA), cache_control |-> Some(NoStore),
      last_modified |-> Some(D1), etag |-> None]}

\* a record of either form whose time is the second before the first
\* DateTime: chrono's deserializer rejects it as out of range
BeforeMinDoc ==
    LET t == JStr(FormatTime(NumAdd(MinDateTime, NumOf(0 - 1)))) IN
    JObj([source |-> JStr(UrlA),
          cache_control |-> JObj([Expires |-> t]),
          last_modified |-> JNull,
          etag |-> JStr(V1),
          timestamp |-> t,
          response_headers |-> JObj([n \in {"etag"} |-> JArr(<<JStr(V1)>>)])])

\* metadata files that do not deserialize: a file of zero bytes (left by a run
\* that died after File::create), a document of the wrong shape and a record
\* with a time out of range
CorruptDocs == {JEmpty, JObj([etag |-> JArr(<<>>)]), BeforeMinDoc}

\* a record of another writer in the forms serde also reads: the struct as an
\* array of its fields, the unit variant as an object with a null value
CacheArrayDoc ==
    JArr(<<JStr(UrlA), JObj([NoCache |-> JNull]), JNull, JStr(V1)>>)

InitCacheEntries ==
    {NoEntry}
    \cup {[dir |-> TRUE, data |-> Some(B0), meta |-> Some(SerCacheHeaders(m))] :
            m \in InitCacheRecords}
    \cup {[dir |-> TRUE, data |-> Some(B0), meta |-> Some(CacheArrayDoc)]}
    \cup {[dir |-> TRUE, data |-> Some(B0), meta |-> Some(d)] :
            d \in CorruptDocs}

\* records of caching_client.rs: one a run of the tool stores, and one with a
\* stored validator that only another writer can have put there (a header
\* value with a control character never reaches RequestMetadata::from)
InitClientRecords ==
    {[source |-> UrlA, timestamp |-> NumOf(0),
      response_headers |-> [n \in {"etag"} |-> <<v>>]] : v \in {V1, <<LineFeed>>}}

\* a record of another writer in the array form serde also reads, its stored
\* validator a character outside ASCII
ClientArrayDoc ==
    JArr(<<JStr(UrlA), JStr(FormatTime(NumOf(0))),
           JObj([n \in {"etag"} |-> JArr(<<JStr(<<ArabicThree>>)>>)])>>)

InitClientEntries ==
    {NoEntry}
    \cup {[dir |-> TRUE, data |-> Some(B0),
           meta |-> Some(SerRequestMetadata(m))] : m \in InitClientRecords}
    \cup {[dir |-> TRUE, data |-> Some(B0), meta |-> Some(ClientArrayDoc)]}
    \cup {[dir |-> TRUE, data |-> Some(B0), meta |-> Some(d)] :
            d \in CorruptDocs}

Init ==
    /\ api \in {"cache", "client"}
    /\ disk \in {[k \in Keys |-> IF k = KeyA THEN e ELSE NoEntry] :
                    e \in IF api = "cache" THEN InitCacheEntries
                          ELSE InitClientEntries}
    /\ now = 0
    /\ call = [p \in Callers |-> IdleCall]
    /\ active = {"p1"}
    /\ fetches = 0
    /\ job = NoJob

Next ==
    \/ Tick
    \/ \E p \in Callers, u \in Urls : CacheCall(p, u)
    \/ \E p \in Callers : CacheSendFails(p)
    \/ \E p \in Callers : CacheRespond(p)
    \/ \E p \in Callers : CacheCreateData(p)
    \/ \E p \in Callers : CacheCopy(p)
    \/ \E p \in Callers : CacheCopyEnd(p)
    \/ \E p \in Callers : CacheCopyFails(p)
    \/ \E p \in Callers : CacheHeadersStep(p)
    \/ \E p \in Callers : CacheWriteMetadata(p)
    \/ \E p \in Callers, u \in Urls : ClientSend(p, u)
    \/ \E p \in Callers : ClientSendFails(p)
    \/ \E p \in Callers : ClientRespond(p)
    \/ \E p \in Callers : ClientCachedFilePath(p)
    \/ \E p \in Callers : ClientCreateData(p)
    \/ \E p \in Callers : ClientCopy(p)
    \/ \E p \in Callers : ClientCopyEnd(p)
    \/ \E p \in Callers : ClientCopyFails(p)
    \/ \E p \in Callers : ClientHeadersStep(p)
    \/ \E p \in Callers : ClientWriteMetadata(p)

Spec == Init /\ [][Next]_vars

-----------------------------------------------------------------------------
(* Vocabulary of the properties *)

\* the data artifact and the metadata record of every entry are the same in
\* two states of the cache root
SameFiles(d1, d2) ==
    \A k \in Keys : d1[k].data = d2[k].data /\ d1[k].meta = d2[k].meta

\* the fetch of caller p has returned: cached_get_path has returned, or send
\* has failed, or the first cached_file_path on the response has returned
Returned(p) ==
    \/ call[p].pc = "done"
    \/ api = "client" /\ call[p].pc = "response" /\ call[p].calls = 1

\* the status of the response is in the 2xx class
Is2xx(resp) == resp.status \in 200..299

\* the status of the response is neither 2xx nor 304 (0: no response yet)
IsErrorStatus(resp) ==
    resp.status # 0 /\ resp.status \notin 200..299 /\ resp.status # 304

\* the value of the response's header of that name, if it has one
ResponseHeader(resp, name) ==
    IF \E i \in 1..Len(resp.headers) : resp.headers[i][1] = name
    THEN LET i == CHOOSE i \in 1..Len(resp.headers) :
                    /\ resp.headers[i][1] = name
                    /\ \A j \in 1..(i - 1) : resp.headers[j][1] # name
         IN Some(resp.headers[i][2])
    ELSE None

\* the validators the record of entry k holds, as the program reads them back
StoredEtag(d, k) ==
    IF api = "cache"
    THEN CacheHeadersTryFrom(Unwrap(d[k].meta)).v.etag
    ELSE LET v == StoredValues(RequestMetadataTryFrom(Unwrap(d[k].meta)).v,
                               "etag")
         IN IF Len(v) = 0 THEN None ELSE Some(v[1])

StoredLastModified(d, k) ==
    IF api = "cache"
    THEN CacheHeadersTryFrom(Unwrap(d[k].meta)).v.last_modified
    ELSE LET v == StoredValues(RequestMetadataTryFrom(Unwrap(d[k].meta)).v,
                               "last-modified")
         IN IF Len(v) = 0 THEN None ELSE Some(v[1])

\* the record of entry k exists and deserializes
RecordLoads(d, k) ==
    /\ IsSome(d[k].meta)
    /\ IF api = "cache" THEN CacheHeadersTryFrom(Unwrap(d[k].meta)).ok
       ELSE RequestMetadataTryFrom(Unwrap(d[k].meta)).ok

\* the entry a successful fetch hands out: cache.rs keys it by the request
\* URL, caching_client.rs by the URL of the response
ReturnedKey(p) ==
    IF api = "cache" THEN Md5Hex(call[p].url) ELSE Md5Hex(call[p].resp.url)

-----------------------------------------------------------------------------
(* Properties *)

\* C1: when the origin answers 304 Not Modified, the data artifact and the
\* metadata record of every entry are what they were before the call, at
\* every moment from the arrival of the response on.
C1_NotModifiedLeavesEntry ==
    \A p \in Callers :
        call[p].resp.status = 304 => SameFiles(disk, call[p].pre)

\* C1 witness: a fetch of cache.rs answered 304 has returned the path of an
\* entry that held data and a record before the call.
C1_Witness ==
    \E p \in Callers :
        /\ api = "cache"
        /\ call[p].resp.status = 304
        /\ IsOk(call[p].result)
        /\ IsSome(call[p].pre[Md5Hex(call[p].url)].data)
        /\ IsSome(call[p].pre[Md5Hex(call[p].url)].meta)

\* C2: after a fetch that received a 2xx response has returned successfully,
\* the data artifact of the entry it returns holds the whole body of the
\* response and the stored record's etag and last-modified are exactly the
\* response's ETag and Last-Modified headers, each absent when the response
\* has none.
C2_SuccessStoresBodyAndValidators ==
    \A p \in Callers :
        (Returned(p) /\ Is2xx(call[p].resp) /\ IsOk(call[p].result)) =>
            LET k == ReturnedKey(p) IN
            /\ call[p].result = Ok(DataPath(k))
            /\ disk[k].data = Some(call[p].resp.body)
            /\ RecordLoads(disk, k)
            /\ StoredEtag(disk, k) = ResponseHeader(call[p].resp, "etag")
            /\ StoredLastModified(disk, k) =
                    ResponseHeader(call[p].resp, "last-modified")

\* C2 witness: a fetch of cache.rs has replaced an entry that held an etag and
\* a last-modified by a response that has neither.
C2_Witness ==
    \E p \in Callers :
        LET k == Md5Hex(call[p].url) IN
        /\ api = "cache"
        /\ call[p].pc = "done" /\ IsOk(call[p].result)
        /\ Is2xx(call[p].resp)
        /\ ResponseHeader(call[p].resp, "etag") = None
        /\ ResponseHeader(call[p].resp, "last-modified") = None
        /\ RecordLoads(call[p].pre, k)
        /\ StoredEtag(call[p].pre, k) = Some(V1)
        /\ StoredLastModified(call[p].pre, k) = Some(D1)
        /\ call[p].pre[k].data = Some(B0)
        /\ disk[k].data = Some(B1)

\* C3: when the origin answers with a status that is neither 2xx nor 304, no
\* data artifact and no metadata record changes, and the fetch returns the
\* HTTP-status error that carries exactly that status.
C3_ErrorStatusFailsAndLeavesEntry ==
    \A p \in Callers :
        IsErrorStatus(call[p].resp) =>
            /\ SameFiles(disk, call[p].pre)
            /\ Returned(p) =>
                  call[p].result = Err("HttpStatusError", call[p].resp.status)

\* C3 witness: a fetch of caching_client.rs for an entry with data and a
\* record was answered 500 and has returned the error.
C3_Witness ==
    \E p \in Callers :
        /\ api = "client"
        /\ call[p].resp.status = 500
        /\ Returned(p)
        /\ IsErr(call[p].result)
        /\ IsSome(call[p].pre[Md5Hex(call[p].url)].data)
        /\ IsSome(call[p].pre[Md5Hex(call[p].url)].meta)

-----------------------------------------------------------------------------
(* End-to-end revalidation *)

\* a 200 whose only caching-related header is ETag "v1", with body B1
FirstResponse(u) == MkResponse(200, u, Some(V1), None, <<>>, B1)

\* the entries a first fetch of u answered FirstResponse(u) can leave: the
\* record as cache.rs writes it, and as caching_client.rs writes it at time t
AfterFirstFetch(u) ==
    {[dir |-> TRUE, data |-> Some(B1),
      meta |-> Some(JObj([source |-> JStr(u), cache_control |-> JNull,
                          last_modified |-> JNull, etag |-> JStr(V1)]))]}
    \cup
    {[dir |-> TRUE, data |-> Some(B1),
      meta |-> Some(JObj([source |-> JStr(u),
                          timestamp |-> JStr(ToDecimal(t)),
                          response_headers |->
                             JObj([etag |-> JArr(<<JStr(V1)>>)])]))] :
        t \in 0..MaxTime}

\* the values of a request header
RequestHeader(req, name) == HeaderGetAll(req, name)

\* C4: end-to-end revalidation. A first fetch of a URL without entry, answered
\* 200 with ETag "v1" as its only caching-related header and body B1, stores
\* B1 and the validator v1; the next fetch of that URL, which starts from the
\* entry the first has left, sends If-None-Match: "v1", and when that URL
\* answers it 304 it returns the entry, whose data is B1 and whose etag is v1.
C4_EndToEndRevalidation ==
    \A p \in Callers :
        LET k == Md5Hex(call[p].url) IN
        /\ ( /\ Returned(p)
             /\ call[p].pre[k] = NoEntry
             /\ call[p].resp = FirstResponse(call[p].url)
             /\ IsOk(call[p].result) )
           => disk[k] \in AfterFirstFetch(call[p].url)
        /\ ( /\ call[p].pc # "idle"
             /\ call[p].pre[k] \in AfterFirstFetch(call[p].url) )
           => /\ RequestHeader(call[p].req, "if-none-match") = <<V1>>
              /\ ( /\ Returned(p)
                   /\ call[p].resp.status = 304
                   /\ call[p].resp.url = call[p].url ) =>
                    /\ call[p].result = Ok(DataPath(k))
                    /\ disk[k].data = Some(B1)
                    /\ StoredEtag(disk, k) = Some(V1)

\* The scenario of C4 does happen (in both implementations): a fetch answered
\* 304 has returned, and it started from the entry of a first fetch.
C4_ScenarioReached ==
    \E p \in Callers :
        /\ Returned(p)
        /\ call[p].resp.status = 304
        /\ call[p].pre[Md5Hex(call[p].url)] \in AfterFirstFetch(call[p].url)

\* What holds of C4 in caching_client.rs alone.
C4_HoldsOfCachingClient == api = "client" => C4_EndToEndRevalidation

-----------------------------------------------------------------------------
(* Which validators the next request carries *)

\* the policy of the record of entry k: the cache_control field of a
\* cache.rs record; for a caching_client.rs record, whose headers are stored
\* raw, the policy its Cache-Control values had when they were captured
StoredPolicy(d, k) ==
    IF api = "cache"
    THEN CacheHeadersTryFrom(Unwrap(d[k].meta)).v.cache_control
    ELSE LET m == RequestMetadataTryFrom(Unwrap(d[k].meta)).v
             t == CHOOSE x \in 0..MaxTime : NumOf(x) = m.timestamp
         IN FirstCacheControl(StoredValues(m, "cache-control"), t)

\* the request carries If-None-Match exactly when etag is present, and then
\* with its value, and likewise If-Modified-Since for last_modified
RequestCarries(req, etag, last_modified) ==
    /\ RequestHeader(req, "if-none-match") =
            (IF IsSome(etag) THEN <<Unwrap(etag)>> ELSE <<>>)
    /\ RequestHeader(req, "if-modified-since") =
            (IF IsSome(last_modified) THEN <<Unwrap(last_modified)>> ELSE <<>>)

\* caller p has loaded the record of the URL it fetches and has sent its
\* request: the state every request passes through, with the request in
\* call[p].req and the cache root the call has found in call[p].pre
SentOnRecord(p) ==
    /\ call[p].pc = "sent"
    /\ RecordLoads(call[p].pre, Md5Hex(call[p].url))

\* C5: when no metadata record exists for the URL, the request carries
\* neither If-None-Match nor If-Modified-Since; and a fetch returns an entry
\* only after an answer of the origin: a 2xx, or else a 304.
C5_NoRecordNoValidators ==
    \A p \in Callers :
        /\ (call[p].pc # "idle" /\ IsNone(call[p].pre[Md5Hex(call[p].url)].meta))
            => call[p].req = <<>>
        /\ IsOk(call[p].result) =>
                (Is2xx(call[p].resp) \/ call[p].resp.status = 304)

\* C5 witness: while another URL has a record with an etag, a fetch for a URL
\* without record has sent its request and returned the fresh 2xx answer.
C5_Witness ==
    \E p \in Callers :
        /\ api = "cache"
        /\ call[p].pc = "done"
        /\ call[p].url = UrlB
        /\ IsNone(call[p].pre[KeyB].meta)
        /\ RecordLoads(call[p].pre, KeyA)
        /\ StoredEtag(call[p].pre, KeyA) = Some(V1)
        /\ StoredPolicy(call[p].pre, KeyA) = Some(NoCache)
        /\ call[p].req = <<>>
        /\ Is2xx(call[p].resp) /\ IsOk(call[p].result)

\* the policy asks for revalidation at time t: NoCache, MustRevalidate, or an
\* Expires that lies in the past
AsksRevalidation(cc, t) ==
    \/ cc = NoCache
    \/ cc = MustRevalidate
    \/ IsExpires(cc) /\ NumLt(cc[2], NumOf(t))

\* C6: if the stored policy is NoCache, MustRevalidate or an Expires(t) with t
\* in the past at the time of the call, the request carries If-None-Match,
\* equal to the stored etag, exactly when an etag is stored, and
\* If-Modified-Since, equal to the stored last-modified, exactly when a
\* last-modified is stored.
C6_RevalidationForwardsValidators ==
    \A p \in Callers :
        LET k == Md5Hex(call[p].url) IN
        ( /\ SentOnRecord(p)
          /\ IsSome(StoredPolicy(call[p].pre, k))
          /\ AsksRevalidation(Unwrap(StoredPolicy(call[p].pre, k)), call[p].at) )
        => RequestCarries(call[p].req, StoredEtag(call[p].pre, k),
                          StoredLastModified(call[p].pre, k))

\* C6 witness: cache.rs has sent a request with If-None-Match and without
\* If-Modified-Since for a record whose Expires lies in the past and that
\* holds an etag and no last-modified.
C6_Witness ==
    \E p \in Callers :
        LET k == Md5Hex(call[p].url) IN
        /\ api = "cache"
        /\ call[p].pc = "sent"
        /\ RecordLoads(call[p].pre, k)
        /\ IsSome(StoredPolicy(call[p].pre, k))
        /\ IsExpires(Unwrap(StoredPolicy(call[p].pre, k)))
        /\ NumLt(Unwrap(StoredPolicy(call[p].pre, k))[2], NumOf(call[p].at))
        /\ StoredEtag(call[p].pre, k) = Some(V2)
        /\ StoredLastModified(call[p].pre, k) = None
        /\ call[p].req = <<(<<"if-none-match", V2>>)>>

\* the stored policy of the entry p fetches is an Expires that has not lapsed
\* at the time of the call
FreshExpires(p) ==
    LET k == Md5Hex(call[p].url) IN
    /\ SentOnRecord(p)
    /\ api = "cache"
    /\ IsSome(StoredPolicy(call[p].pre, k))
    /\ IsExpires(Unwrap(StoredPolicy(call[p].pre, k)))
    /\ NumLt(NumOf(call[p].at), Unwrap(StoredPolicy(call[p].pre, k))[2])

\* C7 as stated: if the stored policy is Expires(t) with t in the future at
\* the time of the call, the request carries no validator, even when an etag
\* or a last-modified is stored.
C7_FreshExpiresForwardsNothing ==
    \A p \in Callers : FreshExpires(p) => call[p].req = <<>>

\* C7 as amended: if the stored policy is Expires(t) with t in the future at
\* the time of the call, the request carries the stored validators, as for an
\* Expires that has lapsed: If-None-Match exactly when an etag is stored,
\* If-Modified-Since exactly when a last-modified is stored.
C7_FreshExpiresForwardsValidators ==
    \A p \in Callers :
        FreshExpires(p) =>
            RequestCarries(call[p].req,
                           StoredEtag(call[p].pre, Md5Hex(call[p].url)),
                           StoredLastModified(call[p].pre, Md5Hex(call[p].url)))

\* C7 witness: a request with both validators has been sent for a record whose
\* Expires lies in the future.
C7_Witness ==
    \E p \in Callers :
        /\ FreshExpires(p)
        /\ call[p].pc = "sent"
        /\ call[p].req =
              <<(<<"if-none-match", V1>>), (<<"if-modified-since", D1>>)>>

\* C8: if the stored policy is NoStore, the request carries no validator, even
\* when an etag or a last-modified is stored: it is unconditional, so that no
\* 304 can be the answer to a validator of the cached copy.
C8_NoStoreForwardsNothing ==
    \A p \in Callers :
        ( /\ SentOnRecord(p)
          /\ StoredPolicy(call[p].pre, Md5Hex(call[p].url)) = Some(NoStore) )
        => call[p].req = <<>>

\* C8 witness: a request without validators has been sent for a NoStore record
\* that holds an etag and a last-modified.
C8_Witness ==
    \E p \in Callers :
        LET k == Md5Hex(call[p].url) IN
        /\ SentOnRecord(p)
        /\ StoredPolicy(call[p].pre, k) = Some(NoStore)
        /\ StoredEtag(call[p].pre, k) = Some(V1)
        /\ StoredLastModified(call[p].pre, k) = Some(D1)
        /\ call[p].req = <<>>

-----------------------------------------------------------------------------
(* The policy stored for a response *)

\* the Cache-Control values of the response p has received
CacheControlValues(p) == RequestHeader(call[p].resp.headers, "cache-control")

\* the value has the form max-age=N with N a number of seconds (a u64)
IsMaxAgeN(v) == MaxAgeMatches(v) /\ U64FromStr(MaxAgeCapture(v)).ok

\* the N of such a value
MaxAgeN(v) == U64FromStr(MaxAgeCapture(v)).v

\* C9: the policy stored for a 2xx response that carries one Cache-Control
\* value is Expires(now + N seconds), with now read between the call and the
\* return, when the value is exactly max-age=N, and MustRevalidate for every
\* other value; the statement is read in favour of the code for the values
\* it passes over (one that is not text, one whose number is no u64), for
\* which no policy is stored.
C9_MaxAgeBecomesExpires ==
    \A p \in Callers :
        ( /\ api = "cache"
          /\ call[p].pc = "done"
          /\ IsOk(call[p].result)
          /\ Is2xx(call[p].resp)
          /\ Len(CacheControlValues(p)) = 1 )
        => LET v == CacheControlValues(p)[1]
               policy == StoredPolicy(disk, Md5Hex(call[p].url))
           IN IF IsUtf8(v) /\ IsMaxAgeN(v)
              THEN policy \in {Some(Expires(NumAdd(NumOf(t), MaxAgeN(v)))) :
                                 t \in call[p].at..now}
              ELSE IF ~IsUtf8(v) \/ MaxAgeMatches(v)
              THEN policy = None
              ELSE policy = Some(MustRevalidate)

\* C9 scenario: a fetch called at time 0 has returned Ok on a 200 whose
\* Cache-Control is max-age=18446744073709551615, and the stored policy is an
\* Expires one second before the epoch.
C9_ScenarioReached ==
    \E p \in Callers :
        /\ api = "cache"
        /\ call[p].pc = "done"
        /\ IsOk(call[p].result)
        /\ call[p].at = 0
        /\ now = 0
        /\ CacheControlValues(p) = <<MaxAgeU64Max>>
        /\ StoredPolicy(disk, Md5Hex(call[p].url)) =
                Some(Expires(NumOf(0 - 1)))

\* C9, what the code does: the stored policy is Expires(now + N as i64), the
\* number of seconds taken modulo 2^64 as a signed integer, with now the clock
\* when the headers are parsed.
C9_HoldsOfWrappedMaxAge ==
    \A p \in Callers :
        ( /\ api = "cache"
          /\ call[p].pc = "done"
          /\ IsOk(call[p].result)
          /\ Is2xx(call[p].resp)
          /\ Len(CacheControlValues(p)) = 1
          /\ IsMaxAgeN(CacheControlValues(p)[1]) )
        => StoredPolicy(disk, Md5Hex(call[p].url)) \in
             {Some(Expires(NumAdd(NumOf(t),
                                  AsI64(MaxAgeN(CacheControlValues(p)[1]))))) :
                t \in call[p].at..now}

-----------------------------------------------------------------------------
(* A record that does not deserialize *)

\* C10: when the metadata record of the URL exists and cannot be
\* deserialized, the fetch fails with the serialization error, no request is
\* sent and no response received, and no file of the cache has changed.
C10_CorruptRecordFailsBeforeRequest ==
    \A p \in Callers :
        LET k == Md5Hex(call[p].url) IN
        ( /\ call[p].pc # "idle"
          /\ IsSome(call[p].pre[k].meta)
          /\ Unwrap(call[p].pre[k].meta) \in CorruptDocs )
        => /\ call[p].pc = "done"
           /\ call[p].result = Err("JsonError", 0)
           /\ call[p].req = <<>>
           /\ call[p].resp = NoResponse
           /\ disk = call[p].pre

\* C10 witness: a cache.rs fetch has failed with the serialization error on a
\* record that is a JSON object of the wrong shape, next to a data file.
C10_Witness ==
    \E p \in Callers :
        LET k == Md5Hex(call[p].url) IN
        /\ api = "cache"
        /\ call[p].pc = "done"
        /\ call[p].pre[k].meta = Some(JObj([etag |-> JArr(<<>>)]))
        /\ call[p].pre[k].data = Some(B0)
        /\ call[p].result = Err("JsonError", 0)
        /\ disk = call[p].pre

-----------------------------------------------------------------------------
(* The entry a fetch returns *)

\* the origin has answered p's request as HTTP allows: with a 304 only if the
\* request was conditional
CompliantAnswer(p) ==
    call[p].resp.status = 304 => call[p].req # <<>>

\* the file at a path the program returns exists
FileExists(d, path) ==
    /\ path[1] \in Keys
    /\ path[2] = "data"
    /\ IsSome(d[path[1]].data)

\* C11: whenever a fetch returns successfully, the data artifact exists at the
\* returned path, after a 2xx (just written) and after a 304 (existing before
\* the call). Stated for an origin that answers 304 to conditional requests
\* only.
C11_ReturnedPathExists ==
    \A p \in Callers :
        (Returned(p) /\ IsOk(call[p].result) /\ CompliantAnswer(p))
        => FileExists(disk, call[p].result[2])

\* The case of C11 happens: a conditional request answered 304 has returned
\* a path.
C11_ScenarioReached ==
    \E p \in Callers :
        /\ Returned(p) /\ IsOk(call[p].result)
        /\ call[p].resp.status = 304
        /\ call[p].req # <<>>
        /\ call[p].resp.url # call[p].url

\* What holds of C11 in cache.rs, and in caching_client.rs when the response
\* comes from the URL that was requested.
C11_HoldsWithoutRedirect ==
    \A p \in Callers :
        ( /\ Returned(p) /\ IsOk(call[p].result) /\ CompliantAnswer(p)
          /\ (api = "cache" \/ call[p].resp.url = call[p].url) )
        => FileExists(disk, call[p].result[2])

-----------------------------------------------------------------------------
(* Which entry a fetch reads and writes *)

\* the data artifact and the metadata record of every entry but k are the
\* same in two states of the cache root
SameFilesBut(d1, d2, k) ==
    \A j \in Keys \ {k} : d1[j].data = d2[j].data /\ d1[j].meta = d2[j].meta

\* p's fetch of a 2xx response has returned the entry of its request URL,
\* written with the response, and has written no other entry
WroteRequestEntry(p) ==
    LET k == Md5Hex(call[p].url) IN
    /\ call[p].result = Ok(DataPath(k))
    /\ disk[k].data = Some(call[p].resp.body)
    /\ RecordLoads(disk, k)
    /\ SameFilesBut(disk, call[p].pre, k)

\* p's request carries validators only if the entry of its request URL held
\* a record before the call
ReadRequestEntry(p) ==
    call[p].req # <<>> => RecordLoads(call[p].pre, Md5Hex(call[p].url))

\* C12: the entry consulted for validators before the request and the entry
\* written after a 2xx response are the same entry, that of the request URL,
\* also when the final URL of the response differs from the request URL.
C12_SameEntryReadAndWritten ==
    \A p \in Callers :
        /\ call[p].pc # "idle" => ReadRequestEntry(p)
        /\ (Returned(p) /\ Is2xx(call[p].resp) /\ IsOk(call[p].result))
            => WroteRequestEntry(p)

\* The case of C12 happens: a fetch has returned an entry for a 2xx response
\* whose final URL is not the request URL.
C12_ScenarioReached ==
    \E p \in Callers :
        /\ Returned(p) /\ Is2xx(call[p].resp) /\ IsOk(call[p].result)
        /\ call[p].resp.url # call[p].url

\* What holds of C12 in cache.rs, which never looks at the response URL.
C12_HoldsOfCacheRs == api = "cache" => C12_SameEntryReadAndWritten

-----------------------------------------------------------------------------
(* Entries of distinct URLs *)

\* the entries of distinct URLs have distinct keys
DistinctKeys ==
    \A u1 \in Urls, u2 \in Urls : u1 # u2 => Md5Hex(u1) # Md5Hex(u2)

\* every validator of p's request is one the record of its own URL held
\* before the call
ValidatorsOfOwnEntry(p) ==
    LET k == Md5Hex(call[p].url) IN
    call[p].req # <<>> =>
        /\ RecordLoads(call[p].pre, k)
        /\ \/ RequestHeader(call[p].req, "if-none-match") = <<>>
           \/ /\ IsSome(StoredEtag(call[p].pre, k))
              /\ RequestHeader(call[p].req, "if-none-match") =
                    <<Unwrap(StoredEtag(call[p].pre, k))>>
        /\ \/ RequestHeader(call[p].req, "if-modified-since") = <<>>
           \/ /\ IsSome(StoredLastModified(call[p].pre, k))
              /\ RequestHeader(call[p].req, "if-modified-since") =
                    <<Unwrap(StoredLastModified(call[p].pre, k))>>

\* C13: distinct URLs have distinct entries, and a fetch for a URL reads no
\* validator from the entry of another URL and neither creates nor changes
\* the directory, the data artifact or the metadata record of the entry of
\* another URL, at any moment of the call.
C13_OtherEntriesUntouched ==
    /\ DistinctKeys
    /\ \A p \in Callers :
          call[p].pc # "idle" =>
             /\ ValidatorsOfOwnEntry(p)
             /\ \A j \in Keys \ {Md5Hex(call[p].url)} : disk[j] = call[p].pre[j]

\* The case of C13 happens: a fetch for one URL has returned an entry while
\* the other URL has an entry with a record.
C13_ScenarioReached ==
    \E p \in Callers :
        /\ Returned(p) /\ IsOk(call[p].result)
        /\ call[p].url = UrlB
        /\ Is2xx(call[p].resp)
        /\ IsSome(call[p].pre[KeyA].meta)

\* What holds of C13 in cache.rs.
C13_HoldsOfCacheRs == api = "cache" => C13_OtherEntriesUntouched

-----------------------------------------------------------------------------
(* What a concurrent reader finds in the metadata file *)

\* C14: at every instant of a fetch the metadata file of every entry is what
\* it was before the call (a record, or absent) or a complete record: a reader
\* that opens the file at that instant never finds a partially written one.
C14_RecordNeverPartial ==
    \A p \in Callers :
        call[p].pc # "idle" =>
            \A k \in Keys :
                \/ disk[k].meta = call[p].pre[k].meta
                \/ RecordLoads(disk, k)

\* The case of C14 happens: a save is under way over a complete prior record,
\* between File::create and the write of the new record.
C14_ScenarioReached ==
    \E p \in Callers :
        LET k == ReturnedKey(p) IN
        /\ call[p].pc = "metadata"
        /\ RecordLoads(call[p].pre, k)
        /\ disk[k].meta = Some(JEmpty)

-----------------------------------------------------------------------------
(* Saving and loading a metadata record *)

\* a time whose decimal form has two digits
LateTime == 10

\* the CacheHeaders values the round trip is checked for
ValidCacheHeaders ==
    [source : {None, Some(UrlA), Some(UrlB)},
     cache_control : {None, Some(NoStore), Some(NoCache), Some(MustRevalidate),
                      Some(Expires(NumOf(0))), Some(Expires(NumOf(1))),
                      Some(Expires(NumOf(LateTime))),
                      Some(Expires(NumOf(0 - 1))),
                      Some(Expires(MinDateTime)), Some(Expires(MaxDateTime))},
     last_modified : {None, Some(D1)},
     etag : {None, Some(V1), Some(<<>>)}]

\* the RequestMetadata values the round trip is checked for
ValidRequestMetadata ==
    {[source |-> u, timestamp |-> NumOf(t), response_headers |-> h] :
        u \in Urls, t \in {0, 1, LateTime},
        h \in UNION {[D -> {<<>>, <<V1>>, <<V1, V2>>}] :
                        D \in SUBSET {"etag", "cache-control"}}}

\* the record is serialized into the metadata file of the entry of p's URL
\* (serde_json::to_writer_pretty through a BufWriter that is then dropped)
SaveRecord(p) ==
    /\ call[p].pc = "record"
    /\ LET k == Md5Hex(call[p].url) IN
       disk' = [disk EXCEPT ![k].dir = TRUE,
                    ![k].meta = Some(IF api = "cache"
                                     THEN SerCacheHeaders(call[p].metadata)
                                     ELSE SerRequestMetadata(call[p].metadata))]
    /\ call' = [call EXCEPT ![p].pc = "saved"]
    /\ UNCHANGED <<job, api, now, active, fetches>>

\* the metadata file of the entry is deserialized (TryFrom<&Path>)
LoadRecord(p) ==
    /\ call[p].pc = "saved"
    /\ LET k == Md5Hex(call[p].url)
           m == IF api = "cache"
                THEN CacheHeadersTryFrom(Unwrap(disk[k].meta))
                ELSE RequestMetadataTryFrom(Unwrap(disk[k].meta))
       IN call' = [call EXCEPT ![p].pc = "loaded",
                        ![p].result = IF m.ok THEN Ok(m.v)
                                      ELSE Err("JsonError", 0)]
    /\ UNCHANGED <<job, api, disk, now, active, fetches>>

InitRoundTrip ==
    /\ api \in {"cache", "client"}
    /\ disk = [k \in Keys |-> NoEntry]
    /\ now = 0
    /\ active = {"p1"}
    /\ fetches = 0
    /\ job = NoJob
    /\ call \in {[p \in Callers |->
                    IF p \in active
                    THEN [IdleCall EXCEPT !.pc = "record", !.url = u,
                                          !.metadata = m]
                    ELSE IdleCall] :
                 u \in Urls,
                 m \in IF api = "cache" THEN ValidCacheHeaders
                       ELSE ValidRequestMetadata}

NextRoundTrip ==
    \/ \E p \in Callers : SaveRecord(p)
    \/ \E p \in Callers : LoadRecord(p)

SpecRoundTrip == InitRoundTrip /\ [][NextRoundTrip]_vars

\* C15: loading a key after a valid metadata record was saved for it returns
\* a record equal to the one saved: same source, validators and policy in
\* cache.rs, same source, timestamp and headers in caching_client.rs.
C15_LoadReturnsSavedRecord ==
    \A p \in Callers :
        call[p].pc = "loaded" => call[p].result = Ok(call[p].metadata)

\* C15 witness: a record with an empty etag, no last-modified and a policy
\* Expires at a two-digit time has been saved and loaded.
C15_Witness ==
    \E p \in Callers :
        /\ api = "cache"
        /\ call[p].pc = "loaded"
        /\ IsOk(call[p].result)
        /\ call[p].metadata.etag = Some(<<>>)
        /\ call[p].metadata.last_modified = None
        /\ call[p].metadata.cache_control = Some(Expires(NumOf(LateTime)))

-----------------------------------------------------------------------------
(* What a fetch without a 2xx response creates *)

\* no directory, data artifact or metadata record exists in d2 that did not
\* exist in d1
NothingCreated(d1, d2) ==
    \A k \in Keys :
        /\ d2[k].dir => d1[k].dir
        /\ IsSome(d2[k].data) => IsSome(d1[k].data)
        /\ IsSome(d2[k].meta) => IsSome(d1[k].meta)

\* C16: a fetch that has not received a 2xx response creates no part of a
\* cache entry, neither directory nor data artifact nor metadata record; so
\* after a first fetch that ends in an error status or a transport failure no
\* entry exists for the URL.
C16_NothingCreatedWithout2xx ==
    \A p \in Callers :
        (call[p].pc # "idle" /\ ~Is2xx(call[p].resp))
        => NothingCreated(call[p].pre, disk)

\* The case of C16 happens: the first fetch of a URL has ended in an error
\* status.
C16_ScenarioReached ==
    \E p \in Callers :
        /\ Returned(p)
        /\ call[p].pre[Md5Hex(call[p].url)] = NoEntry
        /\ IsErrorStatus(call[p].resp)
        /\ IsErr(call[p].result)

\* What holds of C16: caching_client.rs creates nothing without a 2xx; in
\* cache.rs a transport failure creates nothing, and without a 2xx no data
\* artifact and no metadata record is created.
C16_HoldsButForTheDirectory ==
    \A p \in Callers :
        (call[p].pc # "idle" /\ ~Is2xx(call[p].resp))
        => /\ (api = "client" \/ call[p].resp = NoResponse)
                => NothingCreated(call[p].pre, disk)
           /\ SameFiles(disk, call[p].pre)

-----------------------------------------------------------------------------
(* Where an entry is: paths as sequences of components *)

\* At most MaxDerivations derivations of the paths of one URL.
MaxDerivations == 2

\* env!("CARGO_PKG_NAME")
PkgName == "CARGO_PKG_NAME"

\* a variant that leaves the package directory out
get_cache_dir_NoPackage(cache_dir, sub_path_opt) ==
    cache_dir \o (IF IsSome(sub_path_opt) THEN Unwrap(sub_path_opt) ELSE <<>>)

\* cache.rs get_cache_dir, with cache_dir what dirs::cache_dir() returns
get_cache_dir(cache_dir, sub_path_opt) ==
    cache_dir \o <<PkgName>>
        \o (IF IsSome(sub_path_opt) THEN Unwrap(sub_path_opt) ELSE <<>>)

\* cache.rs get_url_cache_dir, as a path
UrlCacheDir(cache_dir, url_str) ==
    get_cache_dir(cache_dir, Some(<<"http", Md5Hex(url_str)>>))

\* cache.rs: url_cache.join("data") and url_cache.join("cache")
CachePaths(cache_dir, url_str) ==
    [data |-> UrlCacheDir(cache_dir, url_str) \o <<"data">>,
     meta |-> UrlCacheDir(cache_dir, url_str) \o <<"cache">>]

\* caching_client.rs url_cache_path, as a path
UrlCachePath(cache_dir, url) == cache_dir \o <<Md5Hex(url)>>

\* caching_client.rs url_metadata_cache_path
url_metadata_cache_path(cache_dir, url) ==
    UrlCachePath(cache_dir, url) \o <<"metadata">>

\* caching_client.rs url_data_cache_path
url_data_cache_path(cache_dir, url) ==
    UrlCachePath(cache_dir, url) \o <<"data">>

ClientPaths(cache_dir, url) ==
    [data |-> url_data_cache_path(cache_dir, url),
     meta |-> url_metadata_cache_path(cache_dir, url)]

\* the URL strings whose paths are derived: the two URLs of the fetches, and
\* strings that differ from one of them in the query, the case of the host,
\* a trailing slash or the scheme, and the empty string
PathUrls ==
    Urls \cup {"https://example.test/a.bin?x=1", "https://EXAMPLE.test/a.bin",
               "https://example.test/a.bin/", "http://example.test/a.bin", ""}

\* what dirs::cache_dir() returns (from the environment), or the cache_dir a
\* caller of caching_client.rs passes
CacheDirs ==
    {<<"home", "u", ".cache">>, <<"tmp", "xdg">>, <<"var", "cache">>, <<>>}

\* one derivation of the paths of the job's URL
DerivePaths ==
    /\ job.pc = "paths"
    /\ Len(job.derived) < MaxDerivations
    /\ job' = [job EXCEPT !.derived =
                  Append(@, IF api = "cache"
                            THEN CachePaths(job.cache_dir, job.url)
                            ELSE ClientPaths(job.cache_dir, job.url))]
    /\ UNCHANGED <<api, disk, now, call, active, fetches>>

InitPaths ==
    /\ api \in {"cache", "client"}
    /\ disk = [k \in Keys |-> NoEntry]
    /\ now = 0
    /\ call = [p \in Callers |-> IdleCall]
    /\ active = {}
    /\ fetches = 0
    /\ job \in [pc : {"paths"}, cache_dir : CacheDirs, url : PathUrls,
                derived : {<<>>}]

NextPaths == DerivePaths

SpecPaths == InitPaths /\ [][NextPaths]_vars

\* the cache root of the job: <user cache dir>/<package> in cache.rs, the
\* cache_dir of the caller in caching_client.rs
CacheRoot ==
    IF api = "cache" THEN job.cache_dir \o <<PkgName>> ELSE job.cache_dir

\* C17 as stated: every derivation for the same URL gives the same paths, the
\* data artifact is at <cache_root>/http/<key>/data and the metadata record
\* at <cache_root>/http/<key>/metadata.
C17_PathsUnderHttpKey ==
    job.pc = "paths" =>
        \A i \in 1..Len(job.derived) :
            /\ job.derived[i] = job.derived[1]
            /\ job.derived[i].data =
                    CacheRoot \o <<"http", Md5Hex(job.url), "data">>
            /\ job.derived[i].meta =
                    CacheRoot \o <<"http", Md5Hex(job.url), "metadata">>

\* C17 as amended: every derivation for the same URL gives the same paths; in
\* cache.rs the data artifact is at <cache_root>/http/<key>/data and the
\* metadata record at <cache_root>/http/<key>/cache, with <cache_root> the
\* user's cache directory followed by the package name; in caching_client.rs
\* they are at <cache_dir>/<key>/data and <cache_dir>/<key>/metadata, with
\* <cache_dir> given by the caller; <key> is the md5 of the URL string in
\* lower-case hex.
C17_PathsOfEntry ==
    job.pc = "paths" =>
        \A i \in 1..Len(job.derived) :
            /\ job.derived[i] = job.derived[1]
            /\ api = "cache" =>
                /\ job.derived[i].data =
                        job.cache_dir
                        \o <<PkgName, "http", Md5Hex(job.url), "data">>
                /\ job.derived[i].meta =
                        job.cache_dir
                        \o <<PkgName, "http", Md5Hex(job.url), "cache">>
            /\ api = "client" =>
                /\ job.derived[i].data =
                        job.cache_dir \o <<Md5Hex(job.url), "data">>
                /\ job.derived[i].meta =
                        job.cache_dir \o <<Md5Hex(job.url), "metadata">>

\* C17 witness: cache.rs has derived twice the paths of the URL with a query
\* under the cache directory of a home.
C17_Witness ==
    /\ api = "cache"
    /\ job.pc = "paths"
    /\ job.url = "https://example.test/a.bin?x=1"
    /\ job.cache_dir = <<"home", "u", ".cache">>
    /\ Len(job.derived) = 2
    /\ job.derived[2].meta =
          <<"home", "u", ".cache", "CARGO_PKG_NAME", "http",
            "8f4e363a16ad319dcc92c045608d8cac", "cache">>

-----------------------------------------------------------------------------
(* actions.rs: validate_file *)

\* Files hold at most MaxFileLen bytes.
MaxFileLen == 3

\* The capacity of the BufReader, in bytes (8 KiB in std, scaled to the files
\* of the model): fill_buf returns at most that many bytes.
ReadCapacity == 2

\* the byte values of the files
FileBytes == {1, 2, 3}

\* format!("{:x}", md5(bytes)): the digests of the byte strings of the model
Md5HexOfBytes(bytes) ==
    CASE bytes = <<>> -> "d41d8cd98f00b204e9800998ecf8427e"
      [] bytes = <<1>> -> "55a54008ad1ba589aa210d2629c1df41"
      [] bytes = <<2>> -> "9e688c58a5487b8eaf69c9e1005ad0bf"
      [] bytes = <<3>> -> "8666683506aacd900bbd5a74ac4edf68"
      [] bytes = <<1, 1>> -> "249ba6277758050695e8f5909bacd6d3"
      [] bytes = <<1, 2>> -> "0cb988d042a7f28dd5fe2b55b3f5ac7a"
      [] bytes = <<1, 3>> -> "706acf3204a3d094942c7bc49eba2aa8"
      [] bytes = <<2, 1>> -> "050d144172d916d0846f839e0412e929"
      [] bytes = <<2, 2>> -> "bb0132754d128b1bbeb6897169b31159"
      [] bytes = <<2, 3>> -> "1fab1cffea9b6fd2f36bfb46e182fd77"
      [] bytes = <<3, 1>> -> "20f9aa7c189af6e641a43669bebf1c63"
      [] bytes = <<3, 2>> -> "eb78f660ed6774af47b4d76603f888cc"
      [] bytes = <<3, 3>> -> "ac2bfee68b9182158d1c5bab47effd65"
      [] bytes = <<1, 1, 1>> -> "12f023f06e7ec12986f1ff0a2e26188e"
      [] bytes = <<1, 1, 2>> -> "532c6465f4dd9c7bce31b7a7986e3270"
      [] bytes = <<1, 1, 3>> -> "851e397ca5999e99d6f7c834361e39eb"
      [] bytes = <<1, 2, 1>> -> "d6ba17ecfd6d576a0ed2a5f244169283"
      [] bytes = <<1, 2, 2>> -> "73553dc668de24c7e4b2620cc9123279"
      [] bytes = <<1, 2, 3>> -> "5289df737df57326fcdd22597afb1fac"
      [] bytes = <<1, 3, 1>> -> "dce8b63ac8d56a678f9b8eb78650625a"
      [] bytes = <<1, 3, 2>> -> "9de228839b2ccc8d08071bcada88ca6d"
      [] bytes = <<1, 3, 3>> -> "b20a03de016a00098d20d54363b4beda"
      [] bytes = <<2, 1, 1>> -> "251c1fa8a1e95434a64dce0d4826443e"
      [] bytes = <<2, 1, 2>> -> "757ab2327a2684ec1316d1ff73eb7fe4"
      [] bytes = <<2, 1, 3>> -> "3bac2889507c76c73913b5caceb75b6d"
      [] bytes = <<2, 2, 1>> -> "63c174cd54273a8dde5c55f179afff47"
      [] bytes = <<2, 2, 2>> -> "36d9d8df7a0a21c339bf74e2a30d68bd"
      [] bytes = <<2, 2, 3>> -> "eaa66b1e6fb661de8fcd5576eeb53c40"
      [] bytes = <<2, 3, 1>> -> "5d582c1341f4783e2fde0f07d0af9a06"
      [] bytes = <<2, 3, 2>> -> "1f902054b63902375fa9641222634cbb"
      [] bytes = <<2, 3, 3>> -> "ad9eb9395473f6a815b4b171c77a5af5"
      [] bytes = <<3, 1, 1>> -> "a3ab4e9009b0f65a3ff916999853a257"
      [] bytes = <<3, 1, 2>> -> "a867f6e8ebd4e3a90c6084c9738b506b"
      [] bytes = <<3, 1, 3>> -> "685bb8fe18d1981d9246676d553e496e"
      [] bytes = <<3, 2, 1>> -> "ae0f84a71c987607257309bf36dfb41a"
      [] bytes = <<3, 2, 2>> -> "820a68ea745cd37e68443b2edcc54930"
      [] bytes = <<3, 2, 3>> -> "ed2050ba4b1a611539715f3a1743a14d"
      [] bytes = <<3, 3, 1>> -> "7207ff6180cbf9cc4803418342d4ce8a"
      [] bytes = <<3, 3, 2>> -> "a3b329b3fc19186c6fce2d4a5eae0975"
      [] bytes = <<3, 3, 3>> -> "cd14ecc6dadc7a30954ef9c76303a524"
      [] bytes = <<1, 1, 1, 1>> -> "3b5b9852567ef7618aac7f5f2d74ef74"
      [] bytes = <<1, 1, 1, 2>> -> "ac6d79e407747c7b45ba3f25b495d37d"
      [] bytes = <<1, 1, 1, 3>> -> "60f18947368d2cb39eeadf155e9ab6a0"
      [] bytes = <<1, 1, 2, 1>> -> "30f5e30815883ea42348d3f6b4e79662"
      [] bytes = <<1, 1, 2, 2>> -> "dc77fc3afe223760b5e4d2dd17a70e52"
      [] bytes = <<1, 1, 2, 3>> -> "6d2b6dba7044390d87a09355e44e0f53"
      [] bytes = <<1, 1, 3, 1>> -> "6923772740e59ee84a6dfcd6fa634da6"
      [] bytes = <<1, 1, 3, 2>> -> "a833beea2a020845d1f989c62fa06771"
      [] bytes = <<1, 1, 3, 3>> -> "0135fa99b1751a39a9ec35d1fa2c8605"
      [] bytes = <<1, 2, 1, 1>> -> "608765ab496364fe1530e167b64125c2"
      [] bytes = <<1, 2, 1, 2>> -> "71dac2484ac7e300cee68117eeb0cb41"
      [] bytes = <<1, 2, 1, 3>> -> "bd3911c33676ebac8db66c61b6e26e4b"
      [] bytes = <<1, 2, 2, 1>> -> "ddfbcfc3466bc8892df984557df7e530"
      [] bytes = <<1, 2, 2, 2>> -> "ca1f456680570eac5819094684d4d54f"
      [] bytes = <<1, 2, 2, 3>> -> "b0ea0755486c62f82b5cc06ad7f0eaeb"
      [] bytes = <<1, 2, 3, 1>> -> "d7823a8e1167f9618f2f6a12d2f3f401"
      [] bytes = <<1, 2, 3, 2>> -> "56cac8f47c2f256b17d7013c12d80a7b"
      [] bytes = <<1, 2, 3, 3>> -> "f49aa36afeb42533293f105c3a52ffa0"
      [] bytes = <<1, 3, 1, 1>> -> "8a458a3a5ad880fb175a141f7689b101"
      [] bytes = <<1, 3, 1, 2>> -> "73ae81e1c8035393e97fbc127847ee0a"
      [] bytes = <<1, 3, 1, 3>> -> "237d919c9b1df1d2e92544acfceecd4b"
      [] bytes = <<1, 3, 2, 1>> -> "be4d94830baf0121863987f6d8d227e5"
      [] bytes = <<1, 3, 2, 2>> -> "da5a2d5d05cd014cf66bd9695e04ce4d"
      [] bytes = <<1, 3, 2, 3>> -> "40fe0429a05e3f875b3f7b94946640ea"
      [] bytes = <<1, 3, 3, 1>> -> "2189452c89a2ff49c216fc874b268cfe"
      [] bytes = <<1, 3, 3, 2>> -> "9c71aad1bd89860685c9914f5f5be63b"
      [] bytes = <<1, 3, 3, 3>> -> "456e5cb5edcde7f27ca59a27ad1edab5"
      [] bytes = <<2, 1, 1, 1>> -> "b0ea60b9ca12f7dd27916a22cf2273f0"
      [] bytes = <<2, 1, 1, 2>> -> "d8a84f1b02c943e9b6419bf67d0a3429"
      [] bytes = <<2, 1, 1, 3>> -> "807919cfe62dfac4ad3aec40075da1eb"
      [] bytes = <<2, 1, 2, 1>> -> "45f7c617dadbbadfa3faf5c4db9e160c"
      [] bytes = <<2, 1, 2, 2>> -> "bb2c067ff71e07e33c38481f9dd9b7ab"
      [] bytes = <<2, 1, 2, 3>> -> "bb8f1346a192bcf9df6960645aeedb6c"
      [] bytes = <<2, 1, 3, 1>> -> "88a85faed21108bf9bccf062fd74bb35"
      [] bytes = <<2, 1, 3, 2>> -> "306d45872731c176817c82eba8bbf5e3"
      [] bytes = <<2, 1, 3, 3>> -> "c2102a1973195a1ccc99c74ed3ddd888"
      [] bytes = <<2, 2, 1, 1>> -> "70d07236ea6e5ddfc745cc8581cc7606"
      [] bytes = <<2, 2, 1, 2>> -> "67e7c1712b84c669649e437d843a9e95"
      [] bytes = <<2, 2, 1, 3>> -> "d6e8e134934143742f99e2771232fb6c"
      [] bytes = <<2, 2, 2, 1>> -> "e5a4fd23b2848ce6b4185b90677aa73d"
      [] bytes = <<2, 2, 2, 2>> -> "e0ce04795119f5d2eb206628ee484101"
      [] bytes = <<2, 2, 2, 3>> -> "998e99dad120f742ddd410f78c069cd0"
      [] bytes = <<2, 2, 3, 1>> -> "b525f7d57e2f9d54174e1a53eb129858"
      [] bytes = <<2, 2, 3, 2>> -> "b3f881dbcdcab8f4efba8475bf68e01c"
      [] bytes = <<2, 2, 3, 3>> -> "25b3b0b89dfeef268572a694f1520dc9"
      [] bytes = <<2, 3, 1, 1>> -> "ddc77b0fbe09356c50de1f35767906ac"
      [] bytes = <<2, 3, 1, 2>> -> "31e8d4f2e0ef393346a2107ebc982308"
      [] bytes = <<2, 3, 1, 3>> -> "bd116abd2bd6d9c3892a7ff97dc430a8"
      [] bytes = <<2, 3, 2, 1>> -> "70f7583294928d94ef92d81633e83a0e"
      [] bytes = <<2, 3, 2, 2>> -> "bd6bd0cc3aa66bdf4c43a1714094f5f6"
      [] bytes = <<2, 3, 2, 3>> -> "88a51f233a47a43a741ada06844a51c2"
      [] bytes = <<2, 3, 3, 1>> -> "d659fa52d4360b54acd139d7a42cb2a1"
      [] bytes = <<2, 3, 3, 2>> -> "445b9595967f8a6143588ab9c2d8afa8"
      [] bytes = <<2, 3, 3, 3>> -> "dff770f1f97135e0783b6737367d8d24"
      [] bytes = <<3, 1, 1, 1>> -> "4dc448bff05efae7aea7475fcdbedfa9"
      [] bytes = <<3, 1, 1, 2>> -> "4bd39dbe3fd258548f77f3b6de6b6578"
      [] bytes = <<3, 1, 1, 3>> -> "66e342bcbcc278c2949c89f85a29af88"
      [] bytes = <<3, 1, 2, 1>> -> "22ae94276798dcebe09fa96de37887bc"
      [] bytes = <<3, 1, 2, 2>> -> "a526fd81b43e30fc6a62f5c07e04faa5"
      [] bytes = <<3, 1, 2, 3>> -> "a89a8a8d6a2bdbfafdba5022ed268371"
      [] bytes = <<3, 1, 3, 1>> -> "2be3fb823a1da74c9d859db6398fe87e"
      [] bytes = <<3, 1, 3, 2>> -> "b558ccc6f7afcc84ad118e49f31017ac"
      [] bytes = <<3, 1, 3, 3>> -> "0b094a0441b0c9f69d782c450eecc02f"
      [] bytes = <<3, 2, 1, 1>> -> "f929e2c791297bb3c85557d34e587ebc"
      [] bytes = <<3, 2, 1, 2>> -> "121f3d56291a5ed70794efc3e1fe8e97"
      [] bytes = <<3, 2, 1, 3>> -> "a7a56346d47ef9589f317c9415fe337f"
      [] bytes = <<3, 2, 2, 1>> -> "909ef697620b03766e78481eb7fa2355"
      [] bytes = <<3, 2, 2, 2>> -> "c90f107ac45c097fa7ba644ab087bb17"
      [] bytes = <<3, 2, 2, 3>> -> "1d9f79da63f9b56743503c5aa7f6b087"
      [] bytes = <<3, 2, 3, 1>> -> "ef78644d58887350397bfcb6b8670215"
      [] bytes = <<3, 2, 3, 2>> -> "fe1b2ead3f8f11c33c00e65356c56501"
      [] bytes = <<3, 2, 3, 3>> -> "07f9f14cd476704c581fbe49543bc544"
      [] bytes = <<3, 3, 1, 1>> -> "bafd02a680fca230ebeac306dec118d6"
      [] bytes = <<3, 3, 1, 2>> -> "72cda27b72dfb9d160b3a1e79e3e14d6"
      [] bytes = <<3, 3, 1, 3>> -> "6ddd46b743ade9e8c3eaeb2fe014fa7c"
      [] bytes = <<3, 3, 2, 1>> -> "9109a4b1ed0fa955724caf9e6e059d70"
      [] bytes = <<3, 3, 2, 2>> -> "60e10625505917c06f8c7994ad07240c"
      [] bytes = <<3, 3, 2, 3>> -> "1dde60dd8a9f9f386018c696c4c1d10b"
      [] bytes = <<3, 3, 3, 1>> -> "a66226e5577248a67c184579d5b89636"
      [] bytes = <<3, 3, 3, 2>> -> "fca10d5f83e273c8d752358bbfe9e39e"
      [] bytes = <<3, 3, 3, 3>> -> "817d6d96c1c07cb12bfc200134aa57ba"

\* the file contents the verifier is run on
FileContents == UNION {[1..n -> FileBytes] : n \in 0..MaxFileLen}

\* the checksum_type strings of the catalog
ChecksumTypes == {"md5", "MD5", "sha256", ""}

\* the checksum strings of the catalog: digests of some contents, the digest
\* of <<1, 2>> in upper case, a string that is no digest
ExpectedChecksums ==
    {Md5HexOfBytes(<<>>), Md5HexOfBytes(<<1, 2>>), Md5HexOfBytes(<<1, 2, 3>>),
     Md5HexOfBytes(<<1, 3, 3>>),
     "0CB988D042A7F28DD5FE2B55B3F5AC7A", "not-a-digest"}

\* the file validate_file is called on
FileName == "pkg.deb"

\* Result<()>: Ok(())
OkUnit == Ok(<<>>)

\* Error::FileDigestInvalid { file, cktype, expected, actual }
FileDigestInvalid(file, cktype, expected, actual) ==
    Err("FileDigestInvalid",
        [file |-> file, cktype |-> cktype, expected |-> expected,
         actual |-> actual])

\* a variant of the match that takes the name in any letter case
IsSupported_AnyCase(checksum_type) == checksum_type \in {"md5", "MD5"}

\* the arm "md5" of match checksum_type
IsSupported(checksum_type) == checksum_type = "md5"

\* a variant that hands out the bytes of a chunk of two in reverse order
Chunk_Reversed(content, pos, n) ==
    IF n = 2 THEN <<content[pos + 2], content[pos + 1]>>
    ELSE SubSeq(content, pos + 1, pos + n)

\* a variant that hands out the start of the file again
Chunk_FromStart(content, pos, n) == SubSeq(content, 1, n)

\* the n bytes of the file that follow the first pos
Chunk(content, pos, n) == SubSeq(content, pos + 1, pos + n)

\* a variant without the existence check
ValidateExists_NoCheck ==
    /\ job.pc = "start"
    /\ job' = [job EXCEPT !.pc = "open"]
    /\ UNCHANGED <<api, disk, now, call, active, fetches>>

\* lines 215-217: the existence check
ValidateExists ==
    /\ job.pc = "start"
    /\ job' = IF ~job.exists
              THEN [job EXCEPT !.pc = "done",
                               !.result = Err("FileNotExist", job.filename)]
              ELSE [job EXCEPT !.pc = "open"]
    /\ UNCHANGED <<api, disk, now, call, active, fetches>>

\* lines 220-221: std::fs::metadata and File::open succeed
ValidateOpen ==
    /\ job.pc = "open"
    /\ job' = [job EXCEPT !.pc = "match", !.opened = TRUE]
    /\ UNCHANGED <<api, disk, now, call, active, fetches>>

\* lines 220-221: std::fs::metadata or File::open fails
ValidateOpenFails ==
    /\ job.pc = "open"
    /\ job' = [job EXCEPT !.pc = "done", !.result = Err("IoError", 0)]
    /\ UNCHANGED <<api, disk, now, call, active, fetches>>

\* lines 222-226 and 245: match checksum_type
ValidateMatch ==
    /\ job.pc = "match"
    /\ job' = IF IsSupported(job.cktype)
              THEN [job EXCEPT !.pc = "read"]
              ELSE [job EXCEPT !.pc = "done",
                        !.result = Err("UnsupportedChecksumType", job.cktype)]
    /\ UNCHANGED <<api, disk, now, call, active, fetches>>

\* lines 227-233: one turn of the loop: fill_buf returns the next bytes of the
\* file, between one and the capacity of the reader, which are fed to the
\* hasher, consumed and counted; an empty buffer ends the loop
ValidateFillBuf ==
    /\ job.pc = "read"
    /\ IF job.pos = Len(job.content)
       THEN job' = [job EXCEPT !.pc = "compare"]
       ELSE \E n \in 1..ReadCapacity :
                /\ job.pos + n <= Len(job.content)
                /\ job' = [job EXCEPT
                            !.fed = @ \o Chunk(job.content, job.pos, n),
                            !.pos = @ + n,
                            !.count = @ + n]
    /\ UNCHANGED <<api, disk, now, call, active, fetches>>

\* line 227: fill_buf fails
ValidateReadFails ==
    /\ job.pc = "read"
    /\ job' = [job EXCEPT !.pc = "done", !.result = Err("IoError", 0)]
    /\ UNCHANGED <<api, disk, now, call, active, fetches>>

\* lines 234-247: the digest in lower-case hex is compared with the checksum
ValidateCompare ==
    /\ job.pc = "compare"
    /\ LET digest_str == Md5HexOfBytes(job.fed) IN
       job' = [job EXCEPT !.pc = "done",
                  !.result = IF digest_str # job.checksum
                             THEN FileDigestInvalid(job.filename, job.cktype,
                                                    job.checksum, digest_str)
                             ELSE OkUnit]
    /\ UNCHANGED <<api, disk, now, call, active, fetches>>

\* a call of validate_file: the file exists with some content, or does not
InitVerify ==
    /\ api = "actions"
    /\ disk = [k \in Keys |-> NoEntry]
    /\ now = 0
    /\ call = [p \in Callers |-> IdleCall]
    /\ active = {}
    /\ fetches = 0
    /\ \E e \in BOOLEAN, c \in FileContents, t \in ChecksumTypes,
          s \in ExpectedChecksums :
          /\ ~e => c = <<>>
          /\ job = [pc |-> "start", filename |-> FileName, exists |-> e,
                    content |-> c, cktype |-> t, checksum |-> s,
                    opened |-> FALSE, pos |-> 0, fed |-> <<>>, count |-> 0,
                    result |-> NoResult]

NextVerify ==
    \/ ValidateExists
    \/ ValidateOpen
    \/ ValidateOpenFails
    \/ ValidateMatch
    \/ ValidateFillBuf
    \/ ValidateReadFails
    \/ ValidateCompare

SpecVerify == InitVerify /\ [][NextVerify]_vars

\* validate_file has returned, and not with an I/O failure
ValidateReturned ==
    job.pc = "done" /\ job.result # Err("IoError", 0)

\* C18: for an existing file and the md5 algorithm, a call that no I/O failure
\* ends returns Ok exactly when the lower-case hex md5 of the whole content of
\* the file equals the expected checksum, and otherwise returns
\* FileDigestInvalid with the expected checksum and the digest of the content.
C18_ValidIffDigestEqual ==
    (ValidateReturned /\ job.exists /\ job.cktype = "md5") =>
        IF Md5HexOfBytes(job.content) = job.checksum
        THEN job.result = OkUnit
        ELSE job.result =
                Err("FileDigestInvalid",
                    [file |-> job.filename, cktype |-> "md5",
                     expected |-> job.checksum,
                     actual |-> Md5HexOfBytes(job.content)])

\* C18 witness: a file of three bytes, read in more than one chunk, whose
\* digest differs from the expected one in the last byte of the content, is
\* found invalid.
C18_Witness ==
    /\ job.pc = "done"
    /\ job.content = <<1, 2, 3>>
    /\ job.checksum = Md5HexOfBytes(<<1, 3, 3>>)
    /\ job.result[1] = "Err"
    /\ job.result[2] = "FileDigestInvalid"
    /\ job.result[3].actual = "5289df737df57326fcdd22597afb1fac"

\* C19: on a path that does not exist validate_file returns FileNotExist,
\* whatever the checksum and the checksum type, and at no moment of the call
\* is the file opened or a byte of it read.
C19_MissingBeforeOpen ==
    (job.pc # "none" /\ job.pc # "paths" /\ ~job.exists) =>
        /\ job.pc \in {"start", "done"}
        /\ ~job.opened
        /\ job.pos = 0 /\ job.fed = <<>>
        /\ job.pc = "done" => job.result = Err("FileNotExist", job.filename)

\* C19 witness: the call on a missing file with an unsupported checksum type
\* and a checksum that is no digest has returned.
C19_Witness ==
    /\ job.pc = "done"
    /\ ~job.exists
    /\ job.cktype = "sha256"
    /\ job.checksum = "not-a-digest"
    /\ job.result = Err("FileNotExist", FileName)

\* C20: on an existing file with a checksum type other than md5, a call that
\* no I/O failure ends returns UnsupportedChecksumType with that type, and at
\* no moment of the call is a byte of the file read or fed to a digest.
C20_UnsupportedBeforeRead ==
    (job.pc # "none" /\ job.pc # "paths" /\ job.exists /\ job.cktype # "md5")
    => /\ job.pos = 0 /\ job.fed = <<>> /\ job.count = 0
       /\ job.pc \notin {"read", "compare"}
       /\ ValidateReturned =>
             job.result = Err("UnsupportedChecksumType", job.cktype)

\* C20 witness: the call on an existing file of three bytes with the type
\* "MD5" has returned.
C20_Witness ==
    /\ job.pc = "done"
    /\ job.exists /\ job.opened
    /\ job.content = <<1, 2, 3>>
    /\ job.cktype = "MD5"
    /\ job.result = Err("UnsupportedChecksumType", "MD5")

\* to_ascii_lowercase of the checksum strings of the model
ToLowerCase(s) ==
    IF s = "0CB988D042A7F28DD5FE2B55B3F5AC7A"
    THEN "0cb988d042a7f28dd5fe2b55b3f5ac7a"
    ELSE s

\* C21: an expected checksum that differs from the lower-case hex digest of
\* the file only in letter case is accepted: the call returns Ok.
C21_CaseInsensitiveCompare ==
    (/\ ValidateReturned /\ job.exists /\ job.cktype = "md5"
     /\ ToLowerCase(job.checksum) = Md5HexOfBytes(job.content))
    => job.result = OkUnit

\* C21 scenario: the file <<1, 2>> checked against its digest in upper case
\* is reported invalid, with the lower-case digest as the actual one.
C21_ScenarioReached ==
    /\ job.pc = "done"
    /\ job.content = <<1, 2>>
    /\ job.checksum = "0CB988D042A7F28DD5FE2B55B3F5AC7A"
    /\ job.result = FileDigestInvalid(FileName, "md5",
                        "0CB988D042A7F28DD5FE2B55B3F5AC7A",
                        "0cb988d042a7f28dd5fe2b55b3f5ac7a")

\* C21, what the code does: the comparison is exact, so for an existing file
\* and md5 the call returns Ok only when the checksum is the digest itself.
C21_ExactCompare ==
    (ValidateReturned /\ job.exists /\ job.cktype = "md5"
     /\ job.result = OkUnit)
    => job.checksum = Md5HexOfBytes(job.content)

-----------------------------------------------------------------------------
(* actions.rs: get_component_ids, fetch, verify; sdkm_l3.rs: the catalog *)

\* L3Repo.sections: each section lists its groups
CatalogSections == [sec1 |-> <<"grp1", "grp2">>]

\* L3Repo.groups: each group lists, per version, its components
CatalogGroups ==
    [grp1 |-> << <<"comp1">>, <<"comp2">> >>,
     grp2 |-> << <<"comp2", "comp3">> >>]

\* L3Repo.components: each component lists, per version, the names of its
\* download files
CatalogComponents ==
    [comp1 |-> << <<"a.deb", "b.deb">> >>,
     comp2 |-> << <<"c.deb">>, <<"d.deb">> >>,
     comp3 |-> << >>]

\* the file names of the catalog
BatchFiles == {"a.deb", "b.deb", "c.deb", "d.deb"}

\* the elements of a sequence
Range(seq) == {seq[i] : i \in 1..Len(seq)}

\* the concatenation of the sequences of a sequence
RECURSIVE Flatten(_)
Flatten(seqs) ==
    IF seqs = <<>> THEN <<>> ELSE Head(seqs) \o Flatten(Tail(seqs))

\* sdkm_l3.rs get_components_for_group: the components of the first version
\* of the group, none when the group does not exist
get_components_for_group(id) ==
    IF id \in DOMAIN CatalogGroups
    THEN IF CatalogGroups[id] # <<>>
         THEN Range(Head(CatalogGroups[id]))
         ELSE {}
    ELSE {}

\* sdkm_l3.rs get_components_for_section: the components of the groups of the
\* section, none when the section does not exist
get_components_for_section(id) ==
    IF id \in DOMAIN CatalogSections
    THEN UNION {get_components_for_group(g) : g \in Range(CatalogSections[id])}
    ELSE {}

\* actions.rs get_component_ids: the components named, those of the sections
\* named and those of the groups named
get_component_ids(sel) ==
    sel.components
    \cup UNION {get_components_for_section(s) : s \in sel.sections}
    \cup UNION {get_components_for_group(g) : g \in sel.groups}

\* the selections of the command line
Selections ==
    [sections : {{}, {"sec1"}},
     groups : {{}, {"grp1"}, {"nogrp"}},
     components : {{}, {"comp2"}, {"comp3"}, {"nocomp"}, {"comp1", "comp2"}}]

\* a file of the cache directory that does not exist
MissingFile == [exists |-> FALSE, content |-> <<>>]

\* a file of the cache directory with that content
FileWith(bytes) == [exists |-> TRUE, content |-> bytes]

\* the contents packages have on disk and on the wire
PackageBodies == {<<1>>, <<2>>}

\* the states of a file of the cache directory
FileStates == {MissingFile} \cup {FileWith(b) : b \in PackageBodies}

\* L3DownloadFile.checksum of every file of the catalog: the digest of <<1>>
CatalogChecksum == Md5HexOfBytes(<<1>>)

\* L3DownloadFile.checksum_type: md5 for every file but a.deb, whose type the
\* catalog of the run fixes
CatalogChecksumType(j, f) == IF f = "a.deb" THEN j.cktype_a ELSE "md5"

\* validate_file as a function of the file: the result of a call that no I/O
\* failure ends
validate_file(file, filename, checksum_type, checksum) ==
    IF ~file.exists
    THEN Err("FileNotExist", filename)
    ELSE IF ~IsSupported(checksum_type)
    THEN Err("UnsupportedChecksumType", checksum_type)
    ELSE IF Md5HexOfBytes(file.content) # checksum
    THEN FileDigestInvalid(filename, checksum_type, checksum,
                           Md5HexOfBytes(file.content))
    ELSE OkUnit

\* a variant of the match of verify without the arm of FileNotExist
IsPerItemFailure_OnlyDigest(e) == e[2] \in {"FileDigestInvalid"}

\* a variant of the match of verify that also logs I/O errors
IsPerItemFailure_AlsoIo(e) ==
    e[2] \in {"FileDigestInvalid", "FileNotExist", "IoError"}

\* verify, lines 262-268: the errors that are logged, after which the loop
\* goes on
IsPerItemFailure(e) == e[2] \in {"FileDigestInvalid", "FileNotExist"}

\* the line verify logs for a result of validate_file
LogLine(f, r) ==
    IF IsOk(r) THEN <<f, "VALID">>
    ELSE IF r[2] = "FileDigestInvalid" THEN <<f, "INVALID DIGEST">>
    ELSE IF r[2] = "FileNotExist" THEN <<f, "MISSING FILE">>
    ELSE <<f, r[2]>>

\* fetch, line 180: component.versions.first()
FetchedVersions(versions) ==
    IF versions = <<>> THEN <<>> ELSE <<Head(versions)>>

\* fetch, lines 176-179: the next component of the set; an unknown one ends
\* the run with InvalidComponent
FetchComponent ==
    /\ job.pc = "fetch"
    /\ job.queue = <<>>
    /\ job.step = "create"
    /\ \E c \in job.todo :
        IF c \notin DOMAIN CatalogComponents
        THEN job' = [job EXCEPT !.pc = "fetched",
                        !.fetch_result = Err("InvalidComponent", c)]
        ELSE job' = [job EXCEPT
                        !.todo = @ \ {c},
                        !.queue = Flatten(FetchedVersions(CatalogComponents[c]))]
    /\ UNCHANGED <<api, disk, now, call, active, fetches>>

\* fetch, lines 186-196, the next file of the version: its URL joins the
\* source of the repository and File::create makes the local file, empty
FetchCreate ==
    /\ job.pc = "fetch"
    /\ job.queue # <<>>
    /\ job.step = "create"
    /\ job' = [job EXCEPT !.files[Head(job.queue)] = FileWith(<<>>),
                          !.step = "send"]
    /\ UNCHANGED <<api, disk, now, call, active, fetches>>

\* fetch, lines 203-206: the response arrives, whatever its status
FetchSend ==
    /\ job.pc = "fetch"
    /\ job.step = "send"
    /\ \E body \in PackageBodies :
        job' = [job EXCEPT !.step = "copy", !.body = body, !.unread = body]
    /\ UNCHANGED <<api, disk, now, call, active, fetches>>

\* fetch, line 207, resp.copy_to(&mut out_file), one round of io::copy: a
\* read of the body returns n bytes, which the BufWriter writes to the file
\* before the next read
FetchCopy ==
    /\ job.pc = "fetch"
    /\ job.step = "copy"
    /\ \E n \in ReadSizes(job.unread) :
        job' = [job EXCEPT
                   !.files[Head(job.queue)] =
                        FileWith(WriteAt(@.content,
                                         Len(job.body) - Len(job.unread),
                                         SubSeq(job.unread, 1, n))),
                   !.unread = SubSeq(@, n + 1, Len(@))]
    /\ UNCHANGED <<api, disk, now, call, active, fetches>>

\* fetch, line 207: the read after the last byte returns 0, copy_to returns
\* Ok and the loop goes to the next file
FetchCopyEnd ==
    /\ job.pc = "fetch"
    /\ job.step = "copy"
    /\ job.unread = <<>>
    /\ job' = [job EXCEPT !.fetched = @ \cup {Head(job.queue)},
                          !.queue = Tail(@),
                          !.step = "create"]
    /\ UNCHANGED <<api, disk, now, call, active, fetches>>

\* fetch, an error ends the run. Lines 188-196: the URL of the file does not
\* join the source (InvalidUrl) or File::create fails (IoError), the local
\* file is as it was. Lines 203-206: send fails, the file stays empty. Line
\* 207: a read of the body fails, what was read before stays in the file.
FetchFileFails ==
    /\ job.pc = "fetch"
    /\ job.queue # <<>>
    /\ \E e \in IF job.step = "create"
                THEN {Err("InvalidUrl", 0), Err("IoError", 0)}
                ELSE {Err("HttpError", 0)} :
        job' = [job EXCEPT !.pc = "fetched", !.fetch_result = e]
    /\ UNCHANGED <<api, disk, now, call, active, fetches>>

\* fetch, line 211: every component done
FetchReturn ==
    /\ job.pc = "fetch"
    /\ job.queue = <<>> /\ job.todo = {}
    /\ job' = [job EXCEPT !.pc = "fetched", !.fetch_result = OkUnit]
    /\ UNCHANGED <<api, disk, now, call, active, fetches>>

\* the verify action is run after the fetch action, on the same catalog,
\* selection and cache directory
StartVerify ==
    /\ job.pc = "fetched"
    /\ job' = [job EXCEPT !.pc = "verify",
                          !.todo = get_component_ids(job.sel),
                          !.queue = <<>>]
    /\ UNCHANGED <<api, disk, now, call, active, fetches>>

\* verify, lines 251-256: the next component of the set, with the files of
\* all its versions; an unknown one ends the run with InvalidComponent
VerifyComponent ==
    /\ job.pc = "verify"
    /\ job.queue = <<>>
    /\ \E c \in job.todo :
        IF c \notin DOMAIN CatalogComponents
        THEN job' = [job EXCEPT !.pc = "done",
                        !.result = Err("InvalidComponent", c)]
        ELSE job' = [job EXCEPT
                        !.todo = @ \ {c},
                        !.queue = Flatten(CatalogComponents[c])]
    /\ UNCHANGED <<api, disk, now, call, active, fetches>>

\* verify, lines 257-273: validate_file on the next file; Ok, FileDigestInvalid
\* and FileNotExist are logged and the loop goes on, any other error is
\* returned. On an existing file the call may also end with an I/O error.
VerifyFile ==
    /\ job.pc = "verify"
    /\ job.queue # <<>>
    /\ LET f == Head(job.queue) IN
       \E r \in {validate_file(job.files[f], f, CatalogChecksumType(job, f),
                               CatalogChecksum)}
                \cup (IF job.files[f].exists THEN {Err("IoError", 0)} ELSE {}) :
          job' = IF IsOk(r) \/ IsPerItemFailure(r)
                 THEN [job EXCEPT !.log = Append(@, LogLine(f, r)),
                                  !.queue = Tail(@),
                                  !.io_failed =
                                     IF r = Err("IoError", 0) THEN @ \cup {f}
                                                              ELSE @]
                 ELSE [job EXCEPT !.pc = "done", !.result = r,
                                  !.io_failed =
                                     IF r = Err("IoError", 0) THEN @ \cup {f}
                                                              ELSE @]
    /\ UNCHANGED <<api, disk, now, call, active, fetches>>

\* verify, line 277: every component done
VerifyReturn ==
    /\ job.pc = "verify"
    /\ job.queue = <<>> /\ job.todo = {}
    /\ job' = [job EXCEPT !.pc = "done", !.result = OkUnit]
    /\ UNCHANGED <<api, disk, now, call, active, fetches>>

\* a run of the fetch action followed by the verify action, or of the verify
\* action alone, on a cache directory in any state
InitBatch ==
    /\ api = "actions"
    /\ disk = [k \in Keys |-> NoEntry]
    /\ now = 0
    /\ call = [p \in Callers |-> IdleCall]
    /\ active = {}
    /\ fetches = 0
    /\ \E first \in {"fetch", "verify"}, sel \in Selections,
          t \in {"md5", "sha256"}, fs \in [BatchFiles -> FileStates] :
          job = [pc |-> first, sel |-> sel, cktype_a |-> t, files |-> fs,
                 todo |-> get_component_ids(sel), queue |-> <<>>,
                 step |-> "create", body |-> <<>>, unread |-> <<>>,
                 fetched |-> {}, fetch_result |-> NoResult,
                 log |-> <<>>, io_failed |-> {}, result |-> NoResult]

NextBatch ==
    \/ FetchComponent
    \/ FetchCreate
    \/ FetchSend
    \/ FetchCopy
    \/ FetchCopyEnd
    \/ FetchFileFails
    \/ FetchReturn
    \/ StartVerify
    \/ VerifyComponent
    \/ VerifyFile
    \/ VerifyReturn

SpecBatch == InitBatch /\ [][NextBatch]_vars

\* the download files of every version of the known components selected
SelectedFiles(sel) ==
    UNION {Range(Flatten(CatalogComponents[c])) :
             c \in get_component_ids(sel) \cap DOMAIN CatalogComponents}

\* the outcome of the file in the cache directory of the run, I/O failures
\* apart
OutcomeOf(f) ==
    validate_file(job.files[f], f, CatalogChecksumType(job, f),
                  CatalogChecksum)

\* the file names of the lines logged
LoggedFiles == {job.log[i][1] : i \in 1..Len(job.log)}

\* the outcome is valid, invalid digest or missing
IsReportable(r) ==
    r[1] = "Ok" \/ r[2] = "FileDigestInvalid" \/ r[2] = "FileNotExist"

\* C22: in a verify run, no FileDigestInvalid and no FileNotExist ends the
\* run: each file verified has exactly one line, which tells its outcome
\* (valid, invalid digest, missing); a run that returns Ok has a line for
\* every download file of every version of every selected component; and a
\* run in which every file's outcome is one of the three, on known
\* components, without I/O failure, returns Ok.
C22_IntegrityFailuresDoNotStop ==
    job.pc \in {"verify", "done"} =>
        /\ \A i, k \in 1..Len(job.log) :
              job.log[i][1] = job.log[k][1] => i = k
        /\ \A i \in 1..Len(job.log) :
              /\ job.log[i][2] \in {"VALID", "INVALID DIGEST", "MISSING FILE"}
              /\ job.log[i][2] =
                    (LET r == OutcomeOf(job.log[i][1]) IN
                     IF r[1] = "Ok" THEN "VALID"
                     ELSE IF r[2] = "FileDigestInvalid" THEN "INVALID DIGEST"
                     ELSE "MISSING FILE")
        /\ job.pc = "done" =>
              /\ job.result[1] = "Err" =>
                    job.result[2] \notin {"FileDigestInvalid", "FileNotExist"}
              /\ job.result = OkUnit =>
                    LoggedFiles = SelectedFiles(job.sel)
              /\ (/\ get_component_ids(job.sel) \subseteq DOMAIN CatalogComponents
                  /\ job.io_failed = {}
                  /\ \A f \in SelectedFiles(job.sel) : IsReportable(OutcomeOf(f)))
                 => job.result = OkUnit

\* C22 witness: a run over four files has returned Ok after reporting a
\* missing file first, then an invalid digest, and a valid file after them.
C22_Witness ==
    /\ job.pc = "done"
    /\ job.result = OkUnit
    /\ Len(job.log) = 4
    /\ job.log[1][2] = "MISSING FILE"
    /\ job.log[2][2] = "INVALID DIGEST"
    /\ \E i \in 3..4 : job.log[i][2] = "VALID"

\* the download files the run has not come to: the rest of the current
\* component but its first file, and the files of the components left
FilesAfterFailure ==
    (IF job.queue = <<>> THEN {} ELSE Range(Tail(job.queue)))
    \cup UNION {Range(Flatten(CatalogComponents[c])) :
                  c \in job.todo \cap DOMAIN CatalogComponents}

\* C23: in a verify run, an I/O failure on a file ends the run: the error is
\* returned, the file has no line, and no file after it is verified.
C23_OtherErrorsAreFatal ==
    (job.pc \in {"verify", "done"} /\ job.io_failed # {}) =>
        /\ job.pc = "done"
        /\ job.result = Err("IoError", 0)
        /\ job.queue # <<>>
        /\ job.io_failed = {Head(job.queue)}
        /\ Head(job.queue) \notin LoggedFiles
        /\ LoggedFiles \cap FilesAfterFailure = {}

\* C23 witness: the I/O failure came on the second file of a run of four
\* files, after a line for the first; two files are left unverified.
C23_Witness ==
    /\ job.pc = "done"
    /\ job.result = Err("IoError", 0)
    /\ Len(job.log) = 1
    /\ Cardinality(FilesAfterFailure) = 2
    /\ Cardinality(SelectedFiles(job.sel)) = 4

\* C24: in a verify run, an unsupported checksum type on a file does not end
\* the run: the run never returns UnsupportedChecksumType.
C24_UnsupportedIsNotFatal ==
    job.pc = "done" =>
        ~(job.result[1] = "Err" /\ job.result[2] = "UnsupportedChecksumType")

\* C24 scenario: the run has returned UnsupportedChecksumType on a.deb, the
\* first file verified, and the three files after it have no line.
C24_ScenarioReached ==
    /\ job.pc = "done"
    /\ job.result = Err("UnsupportedChecksumType", "sha256")
    /\ job.queue = <<"a.deb", "b.deb">>
    /\ job.todo = {"comp2"}
    /\ job.log = <<>>

\* C24, what the code does: an unsupported type on an existing file is an
\* outcome of validate_file that verify does not log but returns.
C24_UnsupportedIsFatal ==
    (/\ job.pc = "verify" /\ job.queue # <<>>
     /\ job.files[Head(job.queue)].exists
     /\ CatalogChecksumType(job, Head(job.queue)) # "md5")
    => OutcomeOf(Head(job.queue)) = Err("UnsupportedChecksumType", "sha256")

-----------------------------------------------------------------------------
(* actions.rs: validate_file, the loop of lines 227-233 *)

\* validate_file runs to its end: the thread takes every step it can take
SpecVerifyFair == SpecVerify /\ WF_vars(NextVerify)

\* C25: in the loop of validate_file the bytes fed to the digest are at every
\* moment the bytes of the file up to the read position, in file order, and
\* the progress count is that position; each turn adds to the count the
\* length of the chunk it fed; the loop ends, and when it ends at the end of
\* the file every byte has been fed once and the count is the file's size.
C25_ChunkedLoopFeedsWholeFile ==
    /\ [](job.pc \in {"read", "compare"} =>
            /\ job.fed = SubSeq(job.content, 1, job.pos)
            /\ job.count = job.pos)
    /\ [](job.pc = "compare" =>
            /\ job.fed = job.content
            /\ job.count = Len(job.content))
    /\ [][job'.count - job.count = Len(job'.fed) - Len(job.fed)]_vars
    /\ (job.pc = "read" ~> job.pc # "read")

\* C25 witness: a file of three bytes has been fed in more than one chunk
\* and the call has returned its verdict with the count at three.
C25_Witness ==
    /\ job.pc = "done"
    /\ job.result # Err("IoError", 0)
    /\ job.cktype = "md5"
    /\ job.content = <<3, 1, 2>>
    /\ job.fed = <<3, 1, 2>>
    /\ job.count = 3

-----------------------------------------------------------------------------
(* Properties of the fetcher: data and record of an entry *)

\* the record of entry k loads and holds an etag or a last-modified
HoldsValidator(d, k) ==
    /\ RecordLoads(d, k)
    /\ IsSome(StoredEtag(d, k)) \/ IsSome(StoredLastModified(d, k))

\* entry k holds the complete body of p's response and the validators of
\* that response
EntryIsOfResponse(p, k) ==
    /\ Is2xx(call[p].resp)
    /\ disk[k].data = Some(call[p].resp.body)
    /\ StoredEtag(disk, k) = ResponseHeader(call[p].resp, "etag")
    /\ StoredLastModified(disk, k) =
            ResponseHeader(call[p].resp, "last-modified")

\* C26: for a single sequential caller, when a fetch has returned, with
\* success or with an error, every entry whose record holds a validator is
\* either the entry as it was before the fetch, data and record, or holds the
\* complete body and the validators of the response of this fetch: a stored
\* validator always comes with the complete body of its response.
C26_ValidatorImpliesCompleteBody ==
    \A p \in Callers :
        Returned(p) =>
            \A k \in Keys :
                HoldsValidator(disk, k) =>
                    \/ /\ disk[k].data = call[p].pre[k].data
                       /\ disk[k].meta = call[p].pre[k].meta
                    \/ EntryIsOfResponse(p, k)

\* C26 scenario: an entry held the data B0 and a record with the etag V1; a
\* fetch received a 2xx with the body B1, the copy failed after one byte and
\* the fetch returned the error: the record with V1 is still there, and the
\* data artifact holds the first byte of B1.
C26_ScenarioReached ==
    \E p \in Callers :
        LET k == Md5Hex(call[p].url) IN
        /\ Returned(p)
        /\ call[p].result = Err("HttpError", 0)
        /\ Is2xx(call[p].resp)
        /\ call[p].resp.body = B1
        /\ call[p].pre[k].data = Some(B0)
        /\ HoldsValidator(disk, k)
        /\ StoredEtag(disk, k) = Some(V1)
        /\ disk[k].meta = call[p].pre[k].meta
        /\ disk[k].data = Some(<<1>>)

\* C26, what the code keeps: a fetch that has returned Ok on a 2xx leaves in
\* the entry it returns the complete body and the validators of its response.
C26_HoldsOfSuccessfulFetches ==
    \A p \in Callers :
        (Returned(p) /\ IsOk(call[p].result) /\ Is2xx(call[p].resp)) =>
            EntryIsOfResponse(p, ReturnedKey(p))

\* C27: within a fetch that received a 2xx (cached_get_path, or send and the
\* first accessor call on the response), the metadata file of the entry is
\* created and written only in steps taken when the data artifact holds the
\* whole body of the response and nothing of the body is left to read or to
\* write: the last byte of the body is in the data file before the record is.
C27_DataBeforeMetadata ==
    [][\A p \in Callers :
         LET k == ReturnedKey(p) IN
         (/\ call'[p] # call[p]
          /\ call[p].calls <= 1
          /\ disk'[k].meta # disk[k].meta)
         => /\ call[p].pc \in {"headers", "metadata"}
            /\ Is2xx(call[p].resp)
            /\ call[p].unread = <<>>
            /\ disk[k].data = Some(call[p].resp.body)
            /\ disk'[k].data = disk[k].data
      ]_vars

\* C27 witness: a fetch over an entry with the data B0 has returned Ok on a
\* 2xx with the body B1, copied in two reads; the data artifact holds B1 and
\* the record the validators of the response.
C27_Witness ==
    \E p \in Callers :
        LET k == ReturnedKey(p) IN
        /\ Returned(p)
        /\ IsOk(call[p].result)
        /\ call[p].resp.body = B1
        /\ call[p].pre[k].data = Some(B0)
        /\ disk[k].data = Some(B1)
        /\ RecordLoads(disk, k)
        /\ StoredEtag(disk, k) = ResponseHeader(call[p].resp, "etag")
        /\ disk[k].meta # call[p].pre[k].meta

\* C28: on a 2xx response, after every accessor call that has returned Ok,
\* the first or a later one, the data artifact of the entry handed out holds
\* the full body of the response.
C28_AccessorsRepeatable ==
    \A p \in Callers :
        (/\ api = "client" /\ call[p].pc = "response" /\ call[p].calls >= 1
         /\ Is2xx(call[p].resp) /\ IsOk(call[p].result))
        => /\ call[p].result = Ok(DataPath(ReturnedKey(p)))
           /\ disk[ReturnedKey(p)].data = Some(call[p].resp.body)

\* C28 scenario: the second cached_file_path on a 2xx response with the body
\* B1 has returned Ok, and the data artifact is empty.
C28_ScenarioReached ==
    \E p \in Callers :
        /\ api = "client" /\ call[p].pc = "response"
        /\ call[p].calls = 2
        /\ Is2xx(call[p].resp) /\ IsOk(call[p].result)
        /\ call[p].resp.body = B1
        /\ disk[ReturnedKey(p)].data = Some(<<>>)

\* C28, what the code keeps: the first accessor call that returns Ok leaves
\* the full body in the data artifact.
C28_HoldsOfFirstCall ==
    \A p \in Callers :
        (/\ api = "client" /\ call[p].pc = "response" /\ call[p].calls = 1
         /\ Is2xx(call[p].resp) /\ IsOk(call[p].result))
        => disk[ReturnedKey(p)].data = Some(call[p].resp.body)

-----------------------------------------------------------------------------
(* Two fetches of one URL without locking; a fetch killed on its way *)

\* the answers of the origin in the concurrent runs: two 2xx responses with
\* different bodies and etags, and a 304
RaceResponses ==
    {MkResponse(200, UrlA, Some(V2), None, <<>>, B1),
     MkResponse(200, UrlA, Some(V1), None, <<>>, B2),
     MkResponse(NotModified, UrlA, None, None, <<>>, <<>>)}

\* the process of caller p is killed in the middle of a fetch: the files stay
\* as they are
Kill(p) ==
    /\ call[p].pc \in {"sent", "create", "copy", "headers", "metadata"}
    /\ call' = [call EXCEPT ![p].pc = "killed",
                            ![p].result = <<"Killed", call[p].pc>>]
    /\ UNCHANGED <<job, api, disk, now, active, fetches>>

\* both callers may fetch; the cache root as an earlier run may have left it
InitConcurrent ==
    /\ api \in {"cache", "client"}
    /\ disk \in {[k \in Keys |-> IF k = KeyA THEN e ELSE NoEntry] :
                    e \in IF api = "cache" THEN InitCacheEntries
                          ELSE InitClientEntries}
    /\ now = 0
    /\ call = [p \in Callers |-> IdleCall]
    /\ active = Callers
    /\ fetches = 0
    /\ job = NoJob

\* the steps of the two fetchers of UrlA in any order, and the kill
NextConcurrent ==
    \/ \E p \in Callers : CacheCall(p, UrlA)
    \/ \E p \in Callers : CacheSendFails(p)
    \/ \E p \in Callers : CacheRespond(p) /\ call'[p].resp \in RaceResponses
    \/ \E p \in Callers : CacheCreateData(p)
    \/ \E p \in Callers : CacheCopy(p)
    \/ \E p \in Callers : CacheCopyEnd(p)
    \/ \E p \in Callers : CacheCopyFails(p)
    \/ \E p \in Callers : CacheHeadersStep(p)
    \/ \E p \in Callers : CacheWriteMetadata(p)
    \/ \E p \in Callers : ClientSend(p, UrlA)
    \/ \E p \in Callers : ClientSendFails(p)
    \/ \E p \in Callers : ClientRespond(p) /\ call'[p].resp \in RaceResponses
    \/ \E p \in Callers : ClientCachedFilePath(p)
    \/ \E p \in Callers : ClientCreateData(p)
    \/ \E p \in Callers : ClientCopy(p)
    \/ \E p \in Callers : ClientCopyEnd(p)
    \/ \E p \in Callers : ClientCopyFails(p)
    \/ \E p \in Callers : ClientHeadersStep(p)
    \/ \E p \in Callers : ClientWriteMetadata(p)
    \/ \E p \in Callers : Kill(p)

SpecConcurrent == InitConcurrent /\ [][NextConcurrent]_vars

\* caller p was killed after the copy of a 2xx body into the data file had
\* returned and before the metadata file was created, in a first
\* accessor call, while no other caller had fetched
KilledBetweenWrites(p) ==
    /\ call[p].pc = "killed"
    /\ call[p].result = <<"Killed", "headers">>
    /\ call[p].calls <= 1
    /\ \A q \in Callers \ {p} : call[q].pc = "idle"

\* C29: a fetch killed between its data write and its metadata write leaves
\* the record of the entry as it was before the fetch and, in the data
\* artifact, the new body: data and record come from different responses. And
\* when two fetches of one URL have both returned Ok on 2xx responses, a
\* record that loads is the record of one of the two responses, whatever the
\* data is.
C29_KillLeavesNewDataOldRecord ==
    /\ \A p \in Callers :
          KilledBetweenWrites(p) =>
             LET k == ReturnedKey(p)
                 body == call[p].resp.body
             IN /\ Is2xx(call[p].resp)
                /\ disk[k].meta = call[p].pre[k].meta
                /\ disk[k].data = Some(body)
    /\ \A p, q \in Callers :
          (/\ p # q /\ Returned(p) /\ Returned(q)
           /\ IsOk(call[p].result) /\ IsOk(call[q].result)
           /\ Is2xx(call[p].resp) /\ Is2xx(call[q].resp)
           /\ RecordLoads(disk, KeyA))
          => StoredEtag(disk, KeyA) \in
                {ResponseHeader(call[p].resp, "etag"),
                 ResponseHeader(call[q].resp, "etag")}

\* C29 witness: two fetches of one URL have both returned Ok on 2xx
\* responses with different bodies and etags; the data artifact holds the
\* body of one of them and the record the etag of the other.
C29_Witness ==
    \E p, q \in Callers :
        /\ p # q /\ Returned(p) /\ Returned(q)
        /\ IsOk(call[p].result) /\ IsOk(call[q].result)
        /\ Is2xx(call[p].resp) /\ Is2xx(call[q].resp)
        /\ call[p].resp.body # call[q].resp.body
        /\ disk[KeyA].data = Some(call[p].resp.body)
        /\ RecordLoads(disk, KeyA)
        /\ StoredEtag(disk, KeyA) = ResponseHeader(call[q].resp, "etag")
        /\ StoredEtag(disk, KeyA) # ResponseHeader(call[p].resp, "etag")

\* C29, the other case happens too: a fetch over an entry with the data B0
\* and the etag V1 was killed between the data write and the metadata write
\* of a response with the body B1 and the etag V2; the record still holds
\* V1 and the data artifact holds B1.
C29_KillScenarioReached ==
    \E p \in Callers :
        /\ KilledBetweenWrites(p)
        /\ call[p].resp.body = B1
        /\ ResponseHeader(call[p].resp, "etag") = Some(V2)
        /\ call[p].pre[KeyA].data = Some(B0)
        /\ RecordLoads(disk, KeyA)
        /\ StoredEtag(disk, KeyA) = Some(V1)
        /\ disk[KeyA].data = Some(B1)

-----------------------------------------------------------------------------
(* Properties of fetch followed by verify *)

\* the files fetch downloads for a selection: those of the first version of
\* every known component selected
DownloadedFiles(sel) ==
    UNION {IF CatalogComponents[c] = << >> THEN {}
           ELSE Range(Head(CatalogComponents[c])) :
             c \in get_component_ids(sel) \cap DOMAIN CatalogComponents}

\* C30: when the fetch action has returned Ok, the verify action run after it
\* on the same catalog, selection and cache directory logs no file as
\* missing, and every file it verifies is a file the fetch downloaded.
C30_VerifyAfterFetchFindsEveryFile ==
    (job.pc \in {"verify", "done"} /\ job.fetch_result = OkUnit) =>
        /\ \A i \in 1..Len(job.log) : job.log[i][2] # "MISSING FILE"
        /\ LoggedFiles \subseteq job.fetched

\* C30 scenario: fetch has returned Ok for comp2 after downloading c.deb, the
\* file of its first version; verify has logged c.deb and then reports d.deb,
\* the file of its second version, as missing.
C30_ScenarioReached ==
    /\ job.pc = "done"
    /\ job.fetch_result = OkUnit
    /\ job.fetched = {"c.deb"}
    /\ job.sel.components = {"comp2"}
    /\ Len(job.log) = 2
    /\ job.log[1][1] = "c.deb" /\ job.log[1][2] # "MISSING FILE"
    /\ job.log[2] = <<"d.deb", "MISSING FILE">>

\* C30, what the code keeps: after a fetch that returned Ok, verify reports
\* as missing no file of the first version of a selected component.
C30_HoldsOfFirstVersions ==
    (job.pc \in {"verify", "done"} /\ job.fetch_result = OkUnit) =>
        /\ job.fetched = DownloadedFiles(job.sel)
        /\ \A i \in 1..Len(job.log) :
              job.log[i][2] = "MISSING FILE" => job.log[i][1] \notin job.fetched

=============================================================================
